---- MODULE Spec2Model ----
(***************************************************************************)
(* A model of the datastor storage layer: the cross-process lock           *)
(* (lock/mod.rs, utils.rs get_lock), the UTC boundary trackers             *)
(* (utils.rs check_time_utcdaily / check_time_utchourly), the              *)
(* resume-vs-create decision (utils.rs CheckedFileName, utcdaily.rs        *)
(* get_writer_checked) and the archival worker (utils.rs get_compressor /  *)
(* compressor).                                                            *)
(***************************************************************************)
EXTENDS Integers, Sequences, FiniteSets, TLC

(***************************************************************************)
(* Bounds of the model.                                                    *)
(***************************************************************************)
MaxStores == 3
NDays == 2
\* No handle is constructed while this many messages wait in its channel.
MaxQueue == 2
\* Constructions of run-based handles in one behaviour.
MaxRuns == 2

Procs == {1, 2, 3}
Handles == {1, 2}
Kinds == {"bin", "json"}
Days == 0..(NDays - 1)
HoursOfDay == {1, 2}
\* Timestamps in hours since the epoch: an hour of every day, 25 hours apart,
\* for the daily handles; every modelled hour of every day for the hourly ones.
Stamps == {25 * d + 1 : d \in Days}
HourlyStamps == {24 * d + h : d \in Days, h \in HoursOfDay}

NoDate == -1
EmptyPath == -1
Stop == -2

VARIABLES
    pc,           \* position of each handle's owner in new / store / drop
    kind,         \* Kind type parameter of the handle
    htype,        \* store type of the handle ("UtcDaily", "UtcHourly")
    compress,     \* the `compress` argument of new
    res,          \* result of the last constructor or store call
    lockfile,     \* directory entries of the root: lock file name -> inode (0: absent)
    flockOwner,   \* kernel flock table: lock inode -> holder (0: unlocked)
    lockfd,       \* LockFile.handle: the inode the handle's lock descriptor is open on
    compress_tx,  \* UtcDaily.compress_tx is Some
    compress_hdl, \* UtcDaily.compress_hdl is Some
    last_date,    \* UtcDaily.last_date
    last_hour,    \* UtcHourly.last_hour
    current_dir,  \* UtcDaily.current_dir
    writer,       \* UtcDaily.writer: inode the open File refers to (0: None)
    call,         \* locals of the store call in progress
    dirs,         \* day directories that exist under the root
    fpath,        \* segment file path -> inode (0: absent)
    ino,          \* inode table of segment files: sequence of [content, linked, inits]
    arch,         \* <day>.tar.gz under the root
    slot,         \* COMPRESSION_THREAD_TX of each store type is Some
    queue,        \* the mpsc channel of each store type
    wpc,          \* position of each compression thread
    wjob,         \* the directory the compression thread is working on
    calls,        \* history: the store calls in the order they began; a frame is the index of its call
    crashed,      \* history: kinds of which a handle's process died without teardown
    rundirs,      \* numerically named directories directly under the root (run directories)
    runarch,      \* numerically named archive files directly under the root
    runcount,     \* the run id a run-based handle allocated (its root_dir is root/<runcount>)
    daycount,     \* ExecCount*.daycount
    framecount,   \* ExecCount*SingleFrame.framecount
    hourcount,    \* ExecCountHourly.hourcount
    thour,        \* the hour inside its day of the tdelta argument of a store call
    last_dir,     \* ExecCount*.last_dir
    tdelta,       \* the whole days in the `tdelta` argument of the store call in progress
    rfiles,       \* frame files of the run-based single-frame handles: <<directory, frame id>>
    allocs,       \* history: the run ids the constructors computed, with what the scans returned
    pending       \* history: the messages waiting in any channel, <<store type, message>> in the order sent

lockVars == <<lockfile, flockOwner, lockfd>>
handleVars == <<compress_tx, compress_hdl, last_date, last_hour, current_dir, writer, call>>
fsVars == <<dirs, fpath, ino, arch>>
workerVars == <<slot, queue, wpc, wjob>>
histVars == <<calls, crashed>>
runVars == <<rundirs, runarch, runcount, daycount, framecount, last_dir, tdelta, rfiles, allocs,
            hourcount, thour>>
vars == <<pc, kind, htype, compress, res, lockVars, handleVars, fsVars, workerVars, histVars, runVars, pending>>

\* The run-based store types; all but ExecCountSingleFrame have a compression slot.
RunTypes == {"ExecCountSingleFrame", "ExecCountDailySingleFrame", "ExecCountDaily", "ExecCountHourly"}
StoreTypes == {"UtcDaily", "UtcHourly", "UtcSingleFrame",
               "ExecCountDailySingleFrame", "ExecCountDaily", "ExecCountHourly"}
\* The store types built on UtcDaily: they hold the lock and a writer.
LockedTypes == {"UtcDaily", "UtcHourly"}

\* One program thread: a call on a handle begins when no other call is in progress.
OneThread(p) == \A q \in Handles \ {p} : pc[q] \in {"none", "idle"}

(***************************************************************************)
(* Unsigned counters.  A u32 is the pair <<high, low>> of its 16-bit       *)
(* halves, so that u32::MAX and the numbers next to it are values of the   *)
(* model; a high half above LimbMax stands for a number beyond u32.        *)
(***************************************************************************)
LimbMax == 65535
Zero == <<0, 0>>
Num(n) == <<0, n>>
U32Max == <<LimbMax, LimbMax>>
\* None of an Option<u32>.
None == <<-1, -1>>
Gt(a, b) == a[1] > b[1] \/ (a[1] = b[1] /\ a[2] > b[2])
\* u32::max
Max2(a, b) == IF Gt(b, a) THEN b ELSE a
\* An increment that adds nothing.
CheckedAdd1_Same(a) == a
\* u32::checked_add(1)
CheckedAdd1(a) ==
    IF a = U32Max THEN None
    ELSE IF a[2] = LimbMax THEN <<a[1] + 1, 0>> ELSE <<a[1], a[2] + 1>>
\* u64::checked_add(1); a u64 is the sequence of its four 16-bit parts, the
\* highest first, and u64::MAX has no successor.
CheckedAdd1_64(a) ==
    IF a = <<LimbMax, LimbMax, LimbMax, LimbMax>> THEN None
    ELSE IF a[4] < LimbMax THEN <<a[1], a[2], a[3], a[4] + 1>>
    ELSE IF a[3] < LimbMax THEN <<a[1], a[2], a[3] + 1, 0>>
    ELSE IF a[2] < LimbMax THEN <<a[1], a[2] + 1, 0, 0>>
    ELSE <<a[1] + 1, 0, 0, 0>>
\* `x as u32` of a non-negative float: saturates at u32::MAX.
AsU32(x) == IF x[1] > LimbMax THEN U32Max ELSE x

\* Whole days of a `tdelta` argument; the last is 2^32 days.
ElapsedDays == {Zero, Num(1), <<LimbMax + 1, 0>>}
\* root/<run>/<day> as a directory of the model; the UTC day directories are Days.
DayIdx(d) == IF d = U32Max THEN 99 ELSE d[2]
\* A run whose days all share one directory.
RunDayDir_Flat(run, day) == 100 * run[2]
RunDayDir(run, day) == 100 * run[2] + DayIdx(day)
\* root/<run> as the directory of the frame files of an ExecCountSingleFrame.
RunRootDir(run) == 100 * run[2] + 50
\* The highest run id MaxRuns constructions reach from a root holding RunNames.
MaxRunId == 2 * MaxRuns + 2
RunDayDirs == {RunDayDir(Num(r), AsU32(el)) : r \in 1..MaxRunId, el \in ElapsedDays}
AllDirs == Days \cup RunDayDirs

(***************************************************************************)
(* Lock identity.                                                          *)
(***************************************************************************)
\* FmtInfo::type_hash: a stable hash of the format's type identifier.
TypeHash(k) == IF k = "bin" THEN 11 ELSE 12

\* format!("{:016x}.lock", hash): the sixteen hexadecimal digits of the hash.
RECURSIVE HexDigits(_, _)
HexDigits(n, width) == IF width = 0 THEN <<>> ELSE Append(HexDigits(n \div 16, width - 1), n % 16)

Hashes == {TypeHash(k) : k \in Kinds}
HexTable == [h \in Hashes |-> HexDigits(h, 16)]

LockFileName_Fixed(hash) == HexTable[TypeHash("bin")]
LockFileName(hash) == HexTable[hash]

LockNames == {LockFileName(TypeHash(k)) : k \in Kinds}
LockInos == 1..(Cardinality(Procs) + Cardinality(Kinds))

LockOf(p) == LockFileName(TypeHash(kind[p]))

\* lockfile.exists()
LockExists_Never(name) == FALSE
LockExists(name) == lockfile[name] # 0

\* OpenOptions::new().create_new(true).write(true).open(&lockfile) fails when the
\* name is taken.
CreateNewFails_NoExcl(name) == FALSE
CreateNewFails(name) == lockfile[name] # 0

\* flock(fd, LOCK_EX | LOCK_NB) fails when another open file holds the lock.
FlockFails(i, p) == flockOwner[i] \notin {0, p}

UsedLockInos == {lockfile[n] : n \in LockNames} \cup {lockfd[p] : p \in Procs}
FreeLockIno == CHOOSE i \in LockInos : i \notin UsedLockInos /\ \A j \in LockInos : j \notin UsedLockInos => i <= j

Live(p) == pc[p] \in {"get_compressor", "idle", "mkdir", "write", "join"}
HoldsLock(p) == lockfd[p] # 0 /\ flockOwner[lockfd[p]] = p

(***************************************************************************)
(* Initial state: an empty root, no handle constructed.                    *)
(***************************************************************************)
NoCall == [frame |-> 0, ts |-> 0, isnew |-> FALSE, big |-> FALSE]
NoArchive == [exists |-> FALSE, files |-> {}, complete |-> FALSE]
Exts == Kinds
FileHours == HoursOfDay \cup {0} \cup {ts % 24 : ts \in Stamps}
FileKeys == Days \X FileHours \X Exts

InitHandles ==
    /\ pc = [p \in Procs |-> "none"]
    /\ kind = [p \in Procs |-> "bin"]
    /\ htype = [p \in Procs |-> "UtcDaily"]
    /\ compress = [p \in Procs |-> FALSE]
    /\ res = [p \in Procs |-> "none"]
    /\ lockfile = [n \in LockNames |-> 0]
    /\ flockOwner = [i \in LockInos |-> 0]
    /\ lockfd = [p \in Procs |-> 0]
    /\ compress_tx = [p \in Procs |-> FALSE]
    /\ compress_hdl = [p \in Procs |-> FALSE]
    /\ last_date = [p \in Procs |-> NoDate]
    /\ last_hour = [p \in Procs |-> NoDate]
    /\ current_dir = [p \in Procs |-> EmptyPath]
    /\ writer = [p \in Procs |-> 0]
    /\ call = [p \in Procs |-> NoCall]
    /\ dirs = {}
    /\ fpath = [f \in FileKeys |-> 0]
    /\ ino = <<>>
    /\ arch = [d \in AllDirs |-> NoArchive]
    /\ slot = [t \in StoreTypes |-> FALSE]
    /\ queue = [t \in StoreTypes |-> <<>>]
    /\ wpc = [t \in StoreTypes |-> "notstarted"]
    /\ wjob = [t \in StoreTypes |-> EmptyPath]
    /\ calls = <<>>
    /\ crashed = {}
    /\ runcount = [p \in Procs |-> Zero]
    /\ daycount = [p \in Procs |-> Zero]
    /\ framecount = [p \in Procs |-> Zero]
    /\ hourcount = [p \in Procs |-> 0]
    /\ thour = [p \in Procs |-> 0]
    /\ last_dir = [p \in Procs |-> EmptyPath]
    /\ tdelta = [p \in Procs |-> Zero]
    /\ rfiles = {}
    /\ allocs = <<>>
    /\ pending = <<>>

Init ==
    /\ InitHandles
    /\ rundirs = {}
    /\ runarch = {}

\* The history of the channels, kept by every step: a message appended to a
\* channel is appended to pending; a channel that lost messages (one received,
\* or all of them discarded with the receiver) keeps its latest ones.
RECURSIVE KeepWaiting(_, _)
KeepWaiting(s, q) ==
    IF s = <<>> THEN <<>>
    ELSE LET t == s[1][1]
             waiting == Cardinality({j \in 1..Len(s) : s[j][1] = t})
         IN IF waiting > Len(q[t])
            THEN KeepWaiting(Tail(s), q)
            ELSE <<s[1]>> \o KeepWaiting(Tail(s), q)
LogQueue ==
    LET grown == {t \in StoreTypes : Len(queue'[t]) > Len(queue[t])}
    IN pending' = IF grown # {}
                  THEN LET t == CHOOSE u \in grown : TRUE
                       IN Append(pending, <<t, queue'[t][Len(queue'[t])]>>)
                  ELSE KeepWaiting(pending, queue')


(***************************************************************************)
(* Construction: UtcDaily::new = create_dir_all(root); get_lock;           *)
(* LockFile::new; get_compressor.                                          *)
(***************************************************************************)
\* UtcDaily::new entered with its arguments; create_dir_all(&root_dir).
NewBegin(p, k, c, t) ==
    /\ pc[p] = "none"
    /\ kind' = [kind EXCEPT ![p] = k]
    /\ htype' = [htype EXCEPT ![p] = t]
    /\ compress' = [compress EXCEPT ![p] = c]
    /\ res' = [res EXCEPT ![p] = "pending"]
    /\ pc' = [pc EXCEPT ![p] = "get_lock"]
    /\ UNCHANGED <<lockVars, handleVars, fsVars, workerVars, histVars>>
    /\ UNCHANGED runVars
    /\ LogQueue

\* get_lock, the exists() test: an existing lock file fails the construction.
GetLockExists(p) ==
    /\ pc[p] = "get_lock"
    /\ IF LockExists(LockOf(p))
       THEN /\ res' = [res EXCEPT ![p] = "AlreadyExists"]
            /\ pc' = [pc EXCEPT ![p] = "none"]
       ELSE /\ res' = res
            /\ pc' = [pc EXCEPT ![p] = "create_new"]
    /\ UNCHANGED <<kind, htype, compress, lockVars, handleVars, fsVars, workerVars, histVars>>
    /\ UNCHANGED runVars
    /\ LogQueue

\* get_lock, create_new(true): creates the lock file, writes the marker, closes it.
GetLockCreateNew(p) ==
    /\ pc[p] = "create_new"
    /\ IF CreateNewFails(LockOf(p))
       THEN /\ res' = [res EXCEPT ![p] = "AlreadyExists"]
            /\ pc' = [pc EXCEPT ![p] = "none"]
            /\ lockfile' = lockfile
       ELSE /\ lockfile' = [lockfile EXCEPT ![LockOf(p)] = IF @ = 0 THEN FreeLockIno ELSE @]
            /\ pc' = [pc EXCEPT ![p] = "lf_create"]
            /\ res' = res
    /\ UNCHANGED <<kind, htype, compress, flockOwner, lockfd, handleVars, fsVars, workerVars, histVars>>
    /\ UNCHANGED runVars
    /\ LogQueue

\* LockFile::new, File::create(&path): create-or-open (and truncate).
LockFileCreate(p) ==
    /\ pc[p] = "lf_create"
    /\ LET i == IF lockfile[LockOf(p)] = 0 THEN FreeLockIno ELSE lockfile[LockOf(p)]
       IN /\ lockfile' = [lockfile EXCEPT ![LockOf(p)] = i]
          /\ lockfd' = [lockfd EXCEPT ![p] = i]
    /\ pc' = [pc EXCEPT ![p] = "lf_lock"]
    /\ UNCHANGED <<kind, htype, compress, res, flockOwner, handleVars, fsVars, workerVars, histVars>>
    /\ UNCHANGED runVars
    /\ LogQueue

\* LockFile::new, lock_file(&file): non-blocking exclusive flock; on failure the
\* file is closed and the error returned.
LockFileLock(p) ==
    /\ pc[p] = "lf_lock"
    /\ IF FlockFails(lockfd[p], p)
       THEN /\ res' = [res EXCEPT ![p] = "WouldBlock"]
            /\ pc' = [pc EXCEPT ![p] = "none"]
            /\ lockfd' = [lockfd EXCEPT ![p] = 0]
            /\ flockOwner' = flockOwner
       ELSE /\ flockOwner' = [flockOwner EXCEPT ![lockfd[p]] = p]
            /\ pc' = [pc EXCEPT ![p] = "get_compressor"]
            /\ UNCHANGED <<res, lockfd>>
    /\ UNCHANGED <<kind, htype, compress, lockfile, handleVars, fsVars, workerVars, histVars>>
    /\ UNCHANGED runVars
    /\ LogQueue

\* get_compressor and the struct literal of UtcDaily::new.
GetCompressor(p) ==
    /\ pc[p] = "get_compressor"
    /\ IF compress[p]
       THEN IF slot[htype[p]]
            THEN /\ compress_tx' = [compress_tx EXCEPT ![p] = TRUE]
                 /\ compress_hdl' = [compress_hdl EXCEPT ![p] = FALSE]
                 /\ UNCHANGED <<slot, wpc>>
            ELSE /\ slot' = [slot EXCEPT ![htype[p]] = TRUE]
                 /\ wpc' = [wpc EXCEPT ![htype[p]] = "recv"]
                 /\ compress_tx' = [compress_tx EXCEPT ![p] = TRUE]
                 /\ compress_hdl' = [compress_hdl EXCEPT ![p] = TRUE]
       ELSE /\ compress_tx' = [compress_tx EXCEPT ![p] = FALSE]
            /\ compress_hdl' = [compress_hdl EXCEPT ![p] = FALSE]
            /\ UNCHANGED <<slot, wpc>>
    /\ current_dir' = [current_dir EXCEPT ![p] = EmptyPath]
    /\ last_date' = [last_date EXCEPT ![p] = NoDate]
    /\ last_hour' = [last_hour EXCEPT ![p] = NoDate]
    /\ writer' = [writer EXCEPT ![p] = 0]
    /\ pc' = [pc EXCEPT ![p] = "idle"]
    /\ res' = [res EXCEPT ![p] = "Ok"]
    /\ UNCHANGED <<kind, htype, compress, lockVars, call, fsVars, queue, wjob, histVars>>
    /\ UNCHANGED runVars
    /\ LogQueue

(***************************************************************************)
(* Teardown: Drop for UtcDaily, then the fields, last of them the LockFile.*)
(***************************************************************************)
\* A send on a channel whose receiver is gone fails and is ignored.
\* A send that never reaches the channel.
Send_Lost(t, m) == queue[t]
Send_Always(t, m) == Append(queue[t], m)
Send(t, m) == IF wpc[t] = "recv" \/ wpc[t] = "built" THEN Append(queue[t], m) ELSE queue[t]

\* Drop for UtcDaily: the handle that holds the join handle sends the sentinel.
DropSendsStop(p) == compress_tx[p] /\ compress_hdl[p]

Drop(p) ==
    /\ pc[p] = "idle"
    /\ htype[p] \in LockedTypes
    /\ IF DropSendsStop(p)
       THEN /\ queue' = [queue EXCEPT ![htype[p]] = Send(htype[p], Stop)]
            /\ IF compress_hdl[p]
               THEN pc' = [pc EXCEPT ![p] = "join"]
               ELSE pc' = [pc EXCEPT ![p] = "lf_remove"]
       ELSE /\ queue' = queue
            /\ pc' = [pc EXCEPT ![p] = "lf_remove"]
    /\ compress_hdl' = [compress_hdl EXCEPT ![p] = FALSE]
    /\ UNCHANGED <<kind, htype, compress, res, lockVars, compress_tx, last_date, last_hour,
                   current_dir, writer, call, fsVars, slot, wpc, wjob, histVars>>
    /\ UNCHANGED runVars
    /\ LogQueue

\* A join that returns without waiting for the thread.
Join_NoWait(p) ==
    /\ pc[p] = "join"
    /\ htype[p] \in LockedTypes
    /\ pc' = [pc EXCEPT ![p] = "lf_remove"]
    /\ UNCHANGED <<kind, htype, compress, res, lockVars, handleVars, fsVars, workerVars, histVars>>
    /\ UNCHANGED runVars
    /\ LogQueue

\* hdl.join(): returns when the compression thread has exited.
Join(p) ==
    /\ pc[p] = "join"
    /\ htype[p] \in LockedTypes
    /\ wpc[htype[p]] = "exited"
    /\ pc' = [pc EXCEPT ![p] = "lf_remove"]
    /\ UNCHANGED <<kind, htype, compress, res, lockVars, handleVars, fsVars, workerVars, histVars>>
    /\ UNCHANGED runVars
    /\ LogQueue

\* A Drop for LockFile that leaves the file on disk.
LockFileDropRemove_Keep(p) ==
    /\ pc[p] = "lf_remove"
    /\ lockfile' = lockfile
    /\ writer' = [writer EXCEPT ![p] = 0]
    /\ compress_tx' = [compress_tx EXCEPT ![p] = FALSE]
    /\ pc' = [pc EXCEPT ![p] = "lf_unlock"]
    /\ UNCHANGED <<kind, htype, compress, res, flockOwner, lockfd, compress_hdl, last_date,
                   last_hour, current_dir, call, fsVars, workerVars, histVars>>
    /\ UNCHANGED runVars
    /\ LogQueue

\* Drop for LockFile: remove_file(&self.path).ok(); the writer field was dropped
\* (closed) just before.
LockFileDropRemove(p) ==
    /\ pc[p] = "lf_remove"
    /\ lockfile' = [lockfile EXCEPT ![LockOf(p)] = 0]
    /\ writer' = [writer EXCEPT ![p] = 0]
    /\ compress_tx' = [compress_tx EXCEPT ![p] = FALSE]
    /\ pc' = [pc EXCEPT ![p] = "lf_unlock"]
    /\ UNCHANGED <<kind, htype, compress, res, flockOwner, lockfd, compress_hdl, last_date,
                   last_hour, current_dir, call, fsVars, workerVars, histVars>>
    /\ UNCHANGED runVars
    /\ LogQueue

\* Drop for LockFile: unlock_file(&self.handle).ok(); then the File is closed.
LockFileDropUnlock(p) ==
    /\ pc[p] = "lf_unlock"
    /\ flockOwner' = [flockOwner EXCEPT ![lockfd[p]] = IF @ = p THEN 0 ELSE @]
    /\ lockfd' = [lockfd EXCEPT ![p] = 0]
    /\ last_date' = [last_date EXCEPT ![p] = NoDate]
    /\ last_hour' = [last_hour EXCEPT ![p] = NoDate]
    /\ current_dir' = [current_dir EXCEPT ![p] = EmptyPath]
    /\ pc' = [pc EXCEPT ![p] = "none"]
    /\ res' = [res EXCEPT ![p] = "none"]
    /\ kind' = [kind EXCEPT ![p] = "bin"]
    /\ compress' = [compress EXCEPT ![p] = FALSE]
    /\ calls' = [i \in 1..Len(calls) |-> IF calls[i].h = p THEN [calls[i] EXCEPT !.h = 0] ELSE calls[i]]
    /\ UNCHANGED <<htype, lockfile, compress_tx, compress_hdl, writer, call,
                   fsVars, workerVars, crashed>>
    /\ UNCHANGED runVars
    /\ LogQueue

\* The process owning handle p dies: its descriptors are closed by the kernel
\* (which releases its flock); nothing is removed from disk.
CrashProc(p) ==
    /\ pc[p] # "none"
    /\ flockOwner' = [i \in LockInos |-> IF flockOwner[i] = p THEN 0 ELSE flockOwner[i]]
    /\ lockfd' = [lockfd EXCEPT ![p] = 0]
    /\ crashed' = crashed \cup {kind[p]}
    /\ pc' = [pc EXCEPT ![p] = "none"]
    /\ res' = [res EXCEPT ![p] = "none"]
    /\ compress_tx' = [compress_tx EXCEPT ![p] = FALSE]
    /\ compress_hdl' = [compress_hdl EXCEPT ![p] = FALSE]
    /\ last_date' = [last_date EXCEPT ![p] = NoDate]
    /\ last_hour' = [last_hour EXCEPT ![p] = NoDate]
    /\ current_dir' = [current_dir EXCEPT ![p] = EmptyPath]
    /\ writer' = [writer EXCEPT ![p] = 0]
    /\ call' = [call EXCEPT ![p] = NoCall]
    /\ kind' = [kind EXCEPT ![p] = "bin"]
    /\ compress' = [compress EXCEPT ![p] = FALSE]
    /\ calls' = [i \in 1..Len(calls) |-> IF calls[i].h = p THEN [calls[i] EXCEPT !.h = 0] ELSE calls[i]]
    /\ UNCHANGED <<htype, lockfile, fsVars, workerVars>>
    /\ UNCHANGED runVars
    /\ LogQueue

(***************************************************************************)
(* Segment files.  A file's content is the sequence of what was written to *)
(* it: Hdr for the header Binary::initialize writes, and the frame (the    *)
(* index of its store call) for each record.                               *)
(***************************************************************************)
Hdr == 0
NoFile == <<NoDate, 0, "">>
NoSend == -3

\* tstamp.format("%Y%m%d") and tstamp.format("%H"), of a timestamp in hours.
DateOf(ts) == ts \div 24
HourOf(ts) == ts % 24

\* FmtInfo::extension and FmtInfo::initialize of the format kinds.
Extension(k) == k
InitContent(k) == IF k = "bin" THEN <<Hdr>> ELSE <<>>

\* current_dir.join(format!("{}000000.{}", &date, Kind::extension()))
DailyFile(date, k) == <<date, 0, Extension(k)>>
\* current_dir.join(format!("{}{}0000.{}", &date, &hour, Kind::extension()))
HourlyFile_NoHour(date, hour, k) == <<date, 0, Extension(k)>>
HourlyFile(date, hour, k) == <<date, hour, Extension(k)>>

DirOf(f) == f[1]
FilesIn(d) == {f \in FileKeys : DirOf(f) = d /\ fpath[f] # 0}
ContentOf(f) == ino[fpath[f]].content
Frames(c) == {c[i] : i \in 1..Len(c)} \ {Hdr}

\* File::create: a new inode for an absent path, the truncated inode otherwise.
CreatedIno(f) == IF fpath[f] = 0 THEN Len(ino) + 1 ELSE fpath[f]
\* OpenOptions::new().append(true).open(filename) keeps what the file holds.
OpenAppendContent_Truncate(c) == <<>>
OpenAppendContent(c) == c

\* check_time_utcdaily: the previous directory is sent when the date differs
\* from the tracked one and the handle has a sender.
SendsLastDir_Never(p, date) == FALSE
SendsLastDir_NoTx(p, date) == last_date[p] # date
SendsLastDir_Always(p, date) == compress_tx[p]
SendsLastDir(p, date) == last_date[p] # date /\ compress_tx[p]

\* filename.exists(): CheckedFileName::Old, otherwise CheckedFileName::New.
IsNew_Always(f) == TRUE
IsNew(f) == fpath[f] = 0

\* get_writer_checked, for CheckedFileName::Old: self.writer.take() is used when
\* it is Some, whichever file it was opened on.
ReusesWriter(p) == writer[p] # 0

MyCalls(p) == {i \in 1..Len(calls) : calls[i].h = p}

(***************************************************************************)
(* UtcDaily::store = check_time_utcdaily; get_writer_checked; store_binary *)
(***************************************************************************)
\* check_time_utcdaily, up to the send of the previous directory, of a store
\* call whose payload is (big) or is not beyond what the length field holds.
StoreEnter(p, ts, big) ==
    /\ pc[p] = "idle"
    /\ htype[p] = "UtcDaily"
    /\ big => kind[p] = "bin"
    /\ Len(calls) < MaxStores
    /\ LET sends == SendsLastDir(p, DateOf(ts))
       IN /\ queue' = [queue EXCEPT ![htype[p]] = IF sends THEN Send(htype[p], current_dir[p]) ELSE @]
          /\ calls' = Append(calls, [h |-> p, ts |-> ts, st |-> "begun", file |-> NoFile,
                                     wrote |-> NoFile, how |-> "-",
                                     sentdir |-> IF sends THEN current_dir[p] ELSE NoSend])
    /\ call' = [call EXCEPT ![p] = [frame |-> Len(calls) + 1, ts |-> ts, isnew |-> FALSE, big |-> big]]
    /\ pc' = [pc EXCEPT ![p] = "mkdir"]
    /\ res' = [res EXCEPT ![p] = "pending"]
    /\ UNCHANGED <<kind, htype, compress, lockVars, compress_tx, compress_hdl, last_date, last_hour,
                   current_dir, writer, fsVars, slot, wpc, wjob, crashed>>
    /\ UNCHANGED runVars
    /\ LogQueue

\* UtcDaily::store with a payload the length field holds.
StoreBegin(p, ts) == StoreEnter(p, ts, FALSE)
\* UtcDaily<Binary>::store with a payload of 4 GiB or more.
StoreBeginOversize(p, ts) == StoreEnter(p, ts, TRUE)

\* check_time_utcdaily, from create_dir_all to the returned CheckedFileName.
CheckTimeMkdir(p) ==
    /\ pc[p] = "mkdir"
    /\ htype[p] = "UtcDaily"
    /\ LET date == DateOf(call[p].ts)
           f == DailyFile(date, kind[p])
       IN /\ dirs' = dirs \cup {date}
          /\ current_dir' = [current_dir EXCEPT ![p] = date]
          /\ last_date' = [last_date EXCEPT ![p] = date]
          /\ call' = [call EXCEPT ![p].isnew = IsNew(f)]
          /\ calls' = [calls EXCEPT ![call[p].frame].st = "checked", ![call[p].frame].file = f]
    /\ pc' = [pc EXCEPT ![p] = "write"]
    /\ UNCHANGED <<kind, htype, compress, res, lockVars, compress_tx, compress_hdl, last_hour,
                   writer, fpath, ino, arch, workerVars, crashed>>
    /\ UNCHANGED runVars
    /\ LogQueue

\* check_time_utcdaily when create_dir_all(&current_dir) fails: the `?` returns
\* the error before set_current_dir and set_last_date.
CheckTimeMkdirFails(p) ==
    /\ pc[p] = "mkdir"
    /\ htype[p] = "UtcDaily"
    /\ calls' = [calls EXCEPT ![call[p].frame].st = "Err"]
    /\ call' = [call EXCEPT ![p] = NoCall]
    /\ res' = [res EXCEPT ![p] = "Err"]
    /\ pc' = [pc EXCEPT ![p] = "idle"]
    /\ UNCHANGED <<kind, htype, compress, lockVars, compress_tx, compress_hdl, last_date, last_hour,
                   current_dir, writer, fsVars, workerVars, crashed>>
    /\ UNCHANGED runVars
    /\ LogQueue

\* The write of a frame through the File w: to the inode it is open on, linked
\* or not.
WriteFrame(inodes, w, frame) ==
    IF inodes[w].linked THEN [inodes EXCEPT ![w].content = Append(@, frame)] ELSE inodes

\* store_binary: a payload beyond the length field is rejected with
\* InvalidInput before any byte of the frame is written.
StoreBinary(inodes, w, frame, big) == IF big THEN inodes ELSE WriteFrame(inodes, w, frame)
StoreResult(big) == IF big THEN "InvalidInput" ELSE "Ok"

\* get_writer_checked, store_binary and the return of store.
StoreWrite(p) ==
    /\ pc[p] = "write"
    /\ htype[p] = "UtcDaily"
    /\ LET fr == call[p].frame
           f == calls[fr].file
           k == kind[p]
       IN IF call[p].isnew
          THEN \* get_writer_with_init, New: File::create and Kind::initialize
               IF DirOf(f) \notin dirs
               THEN /\ res' = [res EXCEPT ![p] = "Err"]
                    /\ calls' = [calls EXCEPT ![fr].st = "Err"]
                    /\ UNCHANGED <<writer, fpath, ino>>
               ELSE LET n == CreatedIno(f)
                        made == IF n > Len(ino)
                                THEN Append(ino, [content |-> InitContent(k), linked |-> TRUE, inits |-> 1])
                                ELSE [ino EXCEPT ![n].content = InitContent(k), ![n].inits = @ + 1]
                    IN /\ fpath' = [fpath EXCEPT ![f] = n]
                       /\ ino' = StoreBinary(made, n, fr, call[p].big)
                       /\ writer' = [writer EXCEPT ![p] = n]
                       /\ res' = [res EXCEPT ![p] = StoreResult(call[p].big)]
                       /\ calls' = [calls EXCEPT ![fr].st = StoreResult(call[p].big), ![fr].wrote = f, ![fr].how = "create"]
          ELSE IF ReusesWriter(p)
               THEN \* the writer the handle already holds
                    /\ ino' = StoreBinary(ino, writer[p], fr, call[p].big)
                    /\ res' = [res EXCEPT ![p] = StoreResult(call[p].big)]
                    /\ calls' = [calls EXCEPT ![fr].st = StoreResult(call[p].big), ![fr].how = "reuse",
                                              ![fr].wrote = IF ino[writer[p]].linked
                                                            THEN CHOOSE g \in FileKeys : fpath[g] = writer[p]
                                                            ELSE NoFile]
                    /\ UNCHANGED <<writer, fpath>>
               ELSE \* get_writer_with_init, Old: open for append
                    IF fpath[f] = 0
                    THEN /\ res' = [res EXCEPT ![p] = "Err"]
                         /\ calls' = [calls EXCEPT ![fr].st = "Err"]
                         /\ UNCHANGED <<writer, fpath, ino>>
                    ELSE /\ ino' = StoreBinary([ino EXCEPT ![fpath[f]].content = OpenAppendContent(@)], fpath[f], fr, call[p].big)
                         /\ writer' = [writer EXCEPT ![p] = fpath[f]]
                         /\ res' = [res EXCEPT ![p] = StoreResult(call[p].big)]
                         /\ calls' = [calls EXCEPT ![fr].st = StoreResult(call[p].big), ![fr].wrote = f, ![fr].how = "append"]
                         /\ UNCHANGED fpath
    /\ call' = [call EXCEPT ![p] = NoCall]
    /\ pc' = [pc EXCEPT ![p] = "idle"]
    /\ UNCHANGED <<kind, htype, compress, lockVars, compress_tx, compress_hdl, last_date, last_hour,
                   current_dir, dirs, arch, workerVars, crashed>>
    /\ UNCHANGED runVars
    /\ LogQueue

(***************************************************************************)
(* The compression thread of a store type.                                 *)
(***************************************************************************)
\* What tar.append_dir_all(root, &last_dir) puts into the archive.
FramesIn(d) == {f \in rfiles : f[1] = d}
Snapshot(d) == {<<f, ContentOf(f)>> : f \in FilesIn(d)} \cup {<<f, <<>>>> : f \in FramesIn(d)}

\* rx.recv() and the building of <last_dir>.tar.gz.
WRecv(t) ==
    /\ wpc[t] = "recv"
    /\ queue[t] # <<>>
    /\ LET m == Head(queue[t])
       IN IF m = Stop
          THEN \* the sentinel: the loop breaks, the receiver is dropped
               /\ wpc' = [wpc EXCEPT ![t] = "exited"]
               /\ queue' = [queue EXCEPT ![t] = <<>>]
               /\ UNCHANGED <<arch, wjob>>
          ELSE /\ queue' = [queue EXCEPT ![t] = Tail(@)]
               /\ IF m = EmptyPath
                  THEN \* File::create("") fails: nothing is done
                       UNCHANGED <<arch, wpc, wjob>>
                  ELSE IF m \in dirs
                       THEN /\ arch' = [arch EXCEPT ![m] = [exists |-> TRUE, files |-> Snapshot(m), complete |-> FALSE]]
                            /\ wpc' = [wpc EXCEPT ![t] = "built"]
                            /\ wjob' = [wjob EXCEPT ![t] = m]
                       ELSE \* the output file was created (truncated), the append fails,
                            \* the builder and the encoder are dropped on an empty archive
                            /\ arch' = [arch EXCEPT ![m] = [exists |-> TRUE, files |-> {}, complete |-> TRUE]]
                            /\ UNCHANGED <<wpc, wjob>>
    /\ UNCHANGED <<pc, kind, htype, compress, res, lockVars, handleVars, dirs, fpath, ino, slot, histVars>>
    /\ UNCHANGED runVars
    /\ LogQueue

\* remove_dir_all(&last_dir) after append_dir_all returned Ok, then the end of
\* the block: the tar builder and the gzip encoder are dropped, which writes the
\* end of the archive and what the encoder still buffers.  `finished` tells
\* whether those writes succeed; their errors are not seen by the thread.
WRemoveDrop(t, finished) ==
    /\ wpc[t] = "built"
    /\ LET d == wjob[t]
           gone == {fpath[f] : f \in FilesIn(d)}
       IN /\ dirs' = dirs \ {d}
          /\ fpath' = [f \in FileKeys |-> IF DirOf(f) = d THEN 0 ELSE fpath[f]]
          /\ ino' = [i \in 1..Len(ino) |-> IF i \in gone
                                           THEN [content |-> <<>>, linked |-> FALSE, inits |-> ino[i].inits]
                                           ELSE ino[i]]
          /\ arch' = [arch EXCEPT ![d] = IF finished
                                         THEN [@ EXCEPT !.complete = TRUE]
                                         ELSE [exists |-> TRUE, files |-> {}, complete |-> FALSE]]
    /\ wpc' = [wpc EXCEPT ![t] = "recv"]
    /\ rfiles' = rfiles \ FramesIn(wjob[t])
    /\ wjob' = [wjob EXCEPT ![t] = EmptyPath]
    /\ UNCHANGED <<pc, kind, htype, compress, res, lockVars, handleVars, slot, queue, histVars>>
    /\ UNCHANGED <<rundirs, runarch, runcount, daycount, framecount, last_dir, tdelta, allocs, hourcount, thour>>
    /\ LogQueue

\* The iteration of the compression thread when the archive can be written out.
WRemove_Unfinished(t) == WRemoveDrop(t, FALSE)
WRemove(t) == WRemoveDrop(t, TRUE)

\* The process holding every handle dies: threads and descriptors are gone, the
\* statics start afresh in the next process, the disk stays as it is.
CrashAll ==
    /\ \E p \in Handles : pc[p] # "none"
    /\ crashed' = crashed \cup {kind[p] : p \in {q \in Handles : pc[q] # "none"}}
    /\ pc' = [p \in Procs |-> "none"]
    /\ res' = [p \in Procs |-> "none"]
    /\ kind' = [p \in Procs |-> "bin"]
    /\ compress' = [p \in Procs |-> FALSE]
    /\ flockOwner' = [i \in LockInos |-> 0]
    /\ lockfd' = [p \in Procs |-> 0]
    /\ compress_tx' = [p \in Procs |-> FALSE]
    /\ compress_hdl' = [p \in Procs |-> FALSE]
    /\ last_date' = [p \in Procs |-> NoDate]
    /\ last_hour' = [p \in Procs |-> NoDate]
    /\ current_dir' = [p \in Procs |-> EmptyPath]
    /\ writer' = [p \in Procs |-> 0]
    /\ call' = [p \in Procs |-> NoCall]
    /\ slot' = [t \in StoreTypes |-> FALSE]
    /\ queue' = [t \in StoreTypes |-> <<>>]
    /\ wpc' = [t \in StoreTypes |-> "notstarted"]
    /\ wjob' = [t \in StoreTypes |-> EmptyPath]
    /\ calls' = [i \in 1..Len(calls) |-> [calls[i] EXCEPT !.h = 0]]
    /\ UNCHANGED <<htype, lockfile, fsVars>>
    /\ UNCHANGED runVars
    /\ LogQueue

(***************************************************************************)
(* The calls a program makes on a UtcDaily handle, one step at a time.     *)
(***************************************************************************)
HandleStep(p, ks, cs) ==
    \/ \E k \in ks, c \in cs : NewBegin(p, k, c, "UtcDaily")
    \/ GetLockExists(p)
    \/ GetLockCreateNew(p)
    \/ LockFileCreate(p)
    \/ LockFileLock(p)
    \/ GetCompressor(p)
    \/ \E ts \in Stamps : StoreBegin(p, ts)
    \/ CheckTimeMkdir(p)
    \/ StoreWrite(p)
    \/ Drop(p)
    \/ Join(p)
    \/ LockFileDropRemove(p)
    \/ LockFileDropUnlock(p)

\* One UtcDaily handle at a time on a root, of either kind, with or without
\* archival, and the compression thread beside it.
Next ==
    \/ HandleStep(1, Kinds, BOOLEAN)
    \/ WRecv("UtcDaily")
    \/ WRemove("UtcDaily")
    \/ CrashAll

Spec == Init /\ [][Next]_vars

\* Two UtcDaily handles of different kinds with archival sharing a root.  They
\* are owned by one thread: a call on a handle returns before the next call on
\* any handle begins.  The compression thread runs beside it.
KindOfHandle == [p \in Handles |-> IF p = 1 THEN "bin" ELSE "json"]

NextShared ==
    \/ \E p \in Handles : OneThread(p) /\ HandleStep(p, {KindOfHandle[p]}, {TRUE})
    \/ WRecv("UtcDaily")
    \/ WRemove("UtcDaily")

SpecShared == Init /\ [][NextShared]_vars

\* The same two handles, the first constructed with archival and the second
\* without.
NextMixed ==
    \/ \E p \in Handles : OneThread(p) /\ HandleStep(p, {KindOfHandle[p]}, {p = 1})
    \/ WRecv("UtcDaily")
    \/ WRemove("UtcDaily")

SpecMixed == Init /\ [][NextMixed]_vars

(***************************************************************************)
(* An hourly handle: check_time_utchourly in place of check_time_utcdaily, *)
(* then the file that check names is opened and the frame written to it:   *)
(* a new file per distinct hour, an existing one opened for append.        *)
(***************************************************************************)
\* check_time_utchourly, up to the send of the previous directory.
HourlyStoreBegin(p, ts) ==
    /\ pc[p] = "idle"
    /\ htype[p] = "UtcHourly"
    /\ Len(calls) < MaxStores
    /\ LET sends == SendsLastDir(p, DateOf(ts))
       IN /\ queue' = [queue EXCEPT ![htype[p]] = IF sends THEN Send(htype[p], current_dir[p]) ELSE @]
          /\ calls' = Append(calls, [h |-> p, ts |-> ts, st |-> "begun", file |-> NoFile,
                                     wrote |-> NoFile, how |-> "-",
                                     sentdir |-> IF sends THEN current_dir[p] ELSE NoSend])
    /\ call' = [call EXCEPT ![p] = [frame |-> Len(calls) + 1, ts |-> ts, isnew |-> FALSE, big |-> FALSE]]
    /\ pc' = [pc EXCEPT ![p] = "mkdir"]
    /\ res' = [res EXCEPT ![p] = "pending"]
    /\ UNCHANGED <<kind, htype, compress, lockVars, compress_tx, compress_hdl, last_date, last_hour,
                   current_dir, writer, fsVars, slot, wpc, wjob, crashed>>
    /\ UNCHANGED runVars
    /\ LogQueue

\* check_time_utchourly, from create_dir_all to the returned CheckedFileName.
HourlyCheckTime(p) ==
    /\ pc[p] = "mkdir"
    /\ htype[p] = "UtcHourly"
    /\ LET date == DateOf(call[p].ts)
           hour == HourOf(call[p].ts)
           changed == last_date[p] # date
           dir == IF changed THEN date ELSE current_dir[p]
           lh == IF changed THEN NoDate ELSE last_hour[p]
           f == HourlyFile(dir, hour, kind[p])
       IN /\ dirs' = IF changed THEN dirs \cup {date} ELSE dirs
          /\ current_dir' = [current_dir EXCEPT ![p] = dir]
          /\ last_date' = [last_date EXCEPT ![p] = date]
          /\ last_hour' = [last_hour EXCEPT ![p] = lh]
          /\ IF lh # hour
             THEN /\ call' = [call EXCEPT ![p].isnew = IsNew(f)]
                  /\ calls' = [calls EXCEPT ![call[p].frame].st = "checked", ![call[p].frame].file = f]
                  /\ pc' = [pc EXCEPT ![p] = "write"]
                  /\ UNCHANGED res
             ELSE /\ call' = [call EXCEPT ![p] = NoCall]
                  /\ calls' = [calls EXCEPT ![call[p].frame].st = "Err"]
                  /\ pc' = [pc EXCEPT ![p] = "idle"]
                  /\ res' = [res EXCEPT ![p] = "InvalidInput"]
    /\ UNCHANGED <<kind, htype, compress, lockVars, compress_tx, compress_hdl,
                   writer, fpath, ino, arch, workerVars, crashed>>
    /\ UNCHANGED runVars
    /\ LogQueue

\* The write of an hourly store call.  Fresh: the file is created and the
\* format's initialization run; Existing: the file is opened for append,
\* initialization skipped.  The file of the previous hour is closed: the
\* handle keeps the writer of the file it has just written.
HourlyStoreWrite(p) ==
    /\ pc[p] = "write"
    /\ htype[p] = "UtcHourly"
    /\ LET fr == call[p].frame
           f == calls[fr].file
           k == kind[p]
       IN IF call[p].isnew
          THEN IF DirOf(f) \notin dirs
               THEN /\ res' = [res EXCEPT ![p] = "Err"]
                    /\ calls' = [calls EXCEPT ![fr].st = "Err"]
                    /\ UNCHANGED <<writer, fpath, ino>>
               ELSE LET n == CreatedIno(f)
                        made == IF n > Len(ino)
                                THEN Append(ino, [content |-> InitContent(k), linked |-> TRUE, inits |-> 1])
                                ELSE [ino EXCEPT ![n].content = InitContent(k), ![n].inits = @ + 1]
                    IN /\ fpath' = [fpath EXCEPT ![f] = n]
                       /\ ino' = WriteFrame(made, n, fr)
                       /\ writer' = [writer EXCEPT ![p] = n]
                       /\ res' = [res EXCEPT ![p] = "Ok"]
                       /\ calls' = [calls EXCEPT ![fr].st = "Ok", ![fr].wrote = f, ![fr].how = "create"]
          ELSE IF fpath[f] = 0
               THEN /\ res' = [res EXCEPT ![p] = "Err"]
                    /\ calls' = [calls EXCEPT ![fr].st = "Err"]
                    /\ UNCHANGED <<writer, fpath, ino>>
               ELSE /\ ino' = WriteFrame([ino EXCEPT ![fpath[f]].content = OpenAppendContent(@)], fpath[f], fr)
                    /\ writer' = [writer EXCEPT ![p] = fpath[f]]
                    /\ res' = [res EXCEPT ![p] = "Ok"]
                    /\ calls' = [calls EXCEPT ![fr].st = "Ok", ![fr].wrote = f, ![fr].how = "append"]
                    /\ UNCHANGED fpath
    /\ call' = [call EXCEPT ![p] = NoCall]
    /\ pc' = [pc EXCEPT ![p] = "idle"]
    /\ UNCHANGED <<kind, htype, compress, lockVars, compress_tx, compress_hdl, last_date, last_hour,
                   current_dir, dirs, arch, workerVars, crashed>>
    /\ UNCHANGED runVars
    /\ LogQueue

\* One hourly binary handle at a time on a root, without archival.
NextHourly ==
    \/ NewBegin(1, "bin", FALSE, "UtcHourly")
    \/ GetLockExists(1)
    \/ GetLockCreateNew(1)
    \/ LockFileCreate(1)
    \/ LockFileLock(1)
    \/ GetCompressor(1)
    \/ \E ts \in HourlyStamps : HourlyStoreBegin(1, ts)
    \/ HourlyCheckTime(1)
    \/ HourlyStoreWrite(1)
    \/ Drop(1)
    \/ LockFileDropRemove(1)
    \/ LockFileDropUnlock(1)

SpecHourly == Init /\ [][NextHourly]_vars

(***************************************************************************)
(* A binary UtcDaily handle and a JSON UtcHourly handle on one root, both  *)
(* with archival, used by one thread, and the compression threads of the   *)
(* two types.                                                              *)
(***************************************************************************)
UtcTypes == [p \in Handles |-> IF p = 1 THEN "UtcDaily" ELSE "UtcHourly"]

NextUtc ==
    \/ \E p \in Handles : OneThread(p) /\ NewBegin(p, KindOfHandle[p], TRUE, UtcTypes[p])
    \/ \E p \in Handles : GetLockExists(p)
    \/ \E p \in Handles : GetLockCreateNew(p)
    \/ \E p \in Handles : LockFileCreate(p)
    \/ \E p \in Handles : LockFileLock(p)
    \/ \E p \in Handles : GetCompressor(p)
    \/ \E ts \in Stamps : OneThread(1) /\ StoreBegin(1, ts)
    \/ CheckTimeMkdir(1)
    \/ \E ts \in HourlyStamps : OneThread(2) /\ HourlyStoreBegin(2, ts)
    \/ HourlyCheckTime(2)
    \/ StoreWrite(1)
    \/ HourlyStoreWrite(2)
    \/ \E p \in Handles : OneThread(p) /\ Drop(p)
    \/ \E p \in Handles : Join(p)
    \/ \E p \in Handles : LockFileDropRemove(p)
    \/ \E p \in Handles : LockFileDropUnlock(p)
    \/ \E t \in {"UtcDaily", "UtcHourly"} : WRecv(t)
    \/ \E t \in {"UtcDaily", "UtcHourly"} : WRemove(t)

SpecUtc == Init /\ [][NextUtc]_vars

(***************************************************************************)
(* UtcSingleFrame: one file per frame, no lock, no writer kept.            *)
(***************************************************************************)
\* check_time_utcdaily(tstamp, true): the file of a single frame is named by
\* the full time of the frame.
SingleFile(ts, k) == <<DateOf(ts), HourOf(ts), Extension(k)>>

\* The fields of a handle are dropped and the handle is gone.
HandleGone(p) ==
    /\ compress_tx' = [compress_tx EXCEPT ![p] = FALSE]
    /\ compress_hdl' = [compress_hdl EXCEPT ![p] = FALSE]
    /\ last_date' = [last_date EXCEPT ![p] = NoDate]
    /\ last_hour' = [last_hour EXCEPT ![p] = NoDate]
    /\ current_dir' = [current_dir EXCEPT ![p] = EmptyPath]
    /\ writer' = [writer EXCEPT ![p] = 0]
    /\ pc' = [pc EXCEPT ![p] = "none"]
    /\ res' = [res EXCEPT ![p] = "none"]
    /\ kind' = [kind EXCEPT ![p] = "bin"]
    /\ compress' = [compress EXCEPT ![p] = FALSE]
    /\ calls' = [i \in 1..Len(calls) |-> IF calls[i].h = p THEN [calls[i] EXCEPT !.h = 0] ELSE calls[i]]

\* UtcSingleFrame::new entered with its arguments; create_dir_all(&root_dir).
SingleNewBegin(p, k, c) ==
    /\ pc[p] = "none"
    /\ Len(queue["UtcSingleFrame"]) < MaxQueue
    /\ kind' = [kind EXCEPT ![p] = k]
    /\ htype' = [htype EXCEPT ![p] = "UtcSingleFrame"]
    /\ compress' = [compress EXCEPT ![p] = c]
    /\ res' = [res EXCEPT ![p] = "pending"]
    /\ pc' = [pc EXCEPT ![p] = "get_compressor"]
    /\ UNCHANGED <<lockVars, handleVars, fsVars, workerVars, histVars>>
    /\ UNCHANGED runVars
    /\ LogQueue

\* check_time_utcdaily in UtcSingleFrame::store or store_custom_writer, up to
\* the send.
SingleStoreBegin(p, ts) ==
    /\ pc[p] = "idle"
    /\ htype[p] = "UtcSingleFrame"
    /\ Len(calls) < MaxStores
    /\ LET sends == SendsLastDir(p, DateOf(ts))
       IN /\ queue' = [queue EXCEPT ![htype[p]] = IF sends THEN Send(htype[p], current_dir[p]) ELSE @]
          /\ calls' = Append(calls, [h |-> p, ts |-> ts, st |-> "begun", file |-> NoFile,
                                     wrote |-> NoFile, how |-> "-",
                                     sentdir |-> IF sends THEN current_dir[p] ELSE NoSend])
    /\ call' = [call EXCEPT ![p] = [frame |-> Len(calls) + 1, ts |-> ts, isnew |-> FALSE, big |-> FALSE]]
    /\ pc' = [pc EXCEPT ![p] = "mkdir"]
    /\ res' = [res EXCEPT ![p] = "pending"]
    /\ UNCHANGED <<kind, htype, compress, lockVars, compress_tx, compress_hdl, last_date, last_hour,
                   current_dir, writer, fsVars, slot, wpc, wjob, crashed>>
    /\ UNCHANGED runVars
    /\ LogQueue

\* check_time_utcdaily in UtcSingleFrame::store, from create_dir_all on.
SingleCheckTime(p) ==
    /\ pc[p] = "mkdir"
    /\ htype[p] = "UtcSingleFrame"
    /\ LET date == DateOf(call[p].ts)
           f == SingleFile(call[p].ts, kind[p])
       IN /\ dirs' = dirs \cup {date}
          /\ current_dir' = [current_dir EXCEPT ![p] = date]
          /\ last_date' = [last_date EXCEPT ![p] = date]
          /\ call' = [call EXCEPT ![p].isnew = IsNew(f)]
          /\ calls' = [calls EXCEPT ![call[p].frame].st = "checked", ![call[p].frame].file = f]
    /\ pc' = [pc EXCEPT ![p] = "write"]
    /\ UNCHANGED <<kind, htype, compress, res, lockVars, compress_tx, compress_hdl, last_hour,
                   writer, fpath, ino, arch, workerVars, crashed>>
    /\ UNCHANGED runVars
    /\ LogQueue

\* UtcSingleFrame::store after check_time_utcdaily: filename.exists() gives
\* AlreadyExists; otherwise File::create and the write of the frame.
SingleStoreWrite(p) ==
    /\ pc[p] = "write"
    /\ htype[p] = "UtcSingleFrame"
    /\ LET fr == call[p].frame
           f == calls[fr].file
       IN IF ~call[p].isnew
          THEN /\ res' = [res EXCEPT ![p] = "AlreadyExists"]
               /\ calls' = [calls EXCEPT ![fr].st = "AlreadyExists"]
               /\ UNCHANGED <<fpath, ino>>
          ELSE IF DirOf(f) \notin dirs
               THEN /\ res' = [res EXCEPT ![p] = "Err"]
                    /\ calls' = [calls EXCEPT ![fr].st = "Err"]
                    /\ UNCHANGED <<fpath, ino>>
               ELSE LET n == CreatedIno(f)
                        made == IF n > Len(ino)
                                THEN Append(ino, [content |-> <<>>, linked |-> TRUE, inits |-> 0])
                                ELSE [ino EXCEPT ![n].content = <<>>]
                    IN /\ fpath' = [fpath EXCEPT ![f] = n]
                       /\ ino' = WriteFrame(made, n, fr)
                       /\ res' = [res EXCEPT ![p] = "Ok"]
                       /\ calls' = [calls EXCEPT ![fr].st = "Ok", ![fr].wrote = f, ![fr].how = "create"]
    /\ call' = [call EXCEPT ![p] = NoCall]
    /\ pc' = [pc EXCEPT ![p] = "idle"]
    /\ UNCHANGED <<kind, htype, compress, lockVars, compress_tx, compress_hdl, last_date, last_hour,
                   current_dir, writer, dirs, arch, workerVars, crashed>>
    /\ UNCHANGED runVars
    /\ LogQueue

\* UtcSingleFrame::store_custom_writer after check_time_utcdaily (the call is
\* the same as store up to here): filename.exists() gives AlreadyExists;
\* otherwise the path is returned and no file is created.
SingleCustomWriter(p) ==
    /\ pc[p] = "write"
    /\ htype[p] = "UtcSingleFrame"
    /\ LET fr == call[p].frame
       IN IF ~call[p].isnew
          THEN /\ res' = [res EXCEPT ![p] = "AlreadyExists"]
               /\ calls' = [calls EXCEPT ![fr].st = "AlreadyExists"]
          ELSE /\ res' = [res EXCEPT ![p] = "OkPath"]
               /\ calls' = [calls EXCEPT ![fr].st = "OkPath", ![fr].how = "custom"]
    /\ call' = [call EXCEPT ![p] = NoCall]
    /\ pc' = [pc EXCEPT ![p] = "idle"]
    /\ UNCHANGED <<kind, htype, compress, lockVars, compress_tx, compress_hdl, last_date, last_hour,
                   current_dir, writer, fsVars, workerVars, crashed>>
    /\ UNCHANGED runVars
    /\ LogQueue

\* Drop for UtcSingleFrame: the sentinel is sent by every handle that has a
\* sender; the handle that has the join handle joins.
SingleDrop(p) ==
    /\ pc[p] = "idle"
    /\ htype[p] = "UtcSingleFrame"
    /\ queue' = [queue EXCEPT ![htype[p]] = IF compress_tx[p] THEN Send(htype[p], Stop) ELSE @]
    /\ IF compress_hdl[p]
       THEN /\ pc' = [pc EXCEPT ![p] = "join"]
            /\ UNCHANGED <<kind, compress, res, handleVars, calls>>
       ELSE /\ HandleGone(p)
            /\ UNCHANGED call
    /\ UNCHANGED <<htype, lockVars, fsVars, slot, wpc, wjob, crashed>>
    /\ UNCHANGED runVars
    /\ LogQueue

\* handle.join() in Drop for UtcSingleFrame, then the fields are dropped.
SingleJoin(p) ==
    /\ pc[p] = "join"
    /\ htype[p] = "UtcSingleFrame"
    /\ wpc[htype[p]] = "exited"
    /\ HandleGone(p)
    /\ UNCHANGED <<htype, lockVars, call, fsVars, workerVars, crashed>>
    /\ UNCHANGED runVars
    /\ LogQueue

\* Two binary UtcSingleFrame handles with archival on one root, each in a
\* thread of its own, and the compression thread.
NextSingle ==
    \/ \E p \in Handles :
        \/ SingleNewBegin(p, "bin", TRUE)
        \/ GetCompressor(p)
        \/ \E ts \in Stamps : SingleStoreBegin(p, ts)
        \/ SingleCheckTime(p)
        \/ SingleStoreWrite(p)
        \/ SingleCustomWriter(p)
        \/ SingleDrop(p)
        \/ SingleJoin(p)
    \/ WRecv("UtcSingleFrame")
    \/ WRemove("UtcSingleFrame")

SpecSingle == Init /\ [][NextSingle]_vars

(***************************************************************************)
(* The run-based handles: ExecCountSingleFrame, ExecCountDailySingleFrame, *)
(* ExecCountDaily and ExecCountHourly.  `new` scans the root for the       *)
(* highest numeric name, allocates the run id and creates root/<run>.      *)
(***************************************************************************)
\* Numeric names a root may hold before the first construction of a behaviour.
RunNames == {Num(1), Num(2), U32Max}

\* find_max_iter: the highest of the numeric names, 0 when there is none.
FindMaxIter(names) == IF names = {} THEN Zero ELSE CHOOSE m \in names : \A n \in names : ~Gt(n, m)

\* The run id each constructor computes from the two scans (None: InvalidData).
RunCount(t, maxdir, maxgz) ==
    LET r1 == CheckedAdd1(maxdir)
    IN  IF r1 = None THEN None
        ELSE IF t = "ExecCountSingleFrame"
             THEN LET r2 == CheckedAdd1(maxgz) IN IF r2 = None THEN None ELSE Max2(r1, r2)
        ELSE IF t = "ExecCountDailySingleFrame"
             THEN CheckedAdd1(Max2(r1, maxgz))
        ELSE r1

\* `new` entered with its arguments; create_dir_all(root_dir).
RunNewBegin(p, t, k, c) ==
    /\ pc[p] = "none"
    /\ Len(allocs) < MaxRuns
    /\ t \in StoreTypes => Len(queue[t]) < MaxQueue
    /\ kind' = [kind EXCEPT ![p] = k]
    /\ htype' = [htype EXCEPT ![p] = t]
    /\ compress' = [compress EXCEPT ![p] = c]
    /\ res' = [res EXCEPT ![p] = "pending"]
    /\ pc' = [pc EXCEPT ![p] = "scan"]
    /\ UNCHANGED <<lockVars, handleVars, fsVars, workerVars, histVars, runVars>>
    /\ LogQueue

\* A scan that would create the run directory of the id in the step that computes it.
RunScan_Reserving(p) ==
    /\ pc[p] = "scan"
    /\ LET maxdir == FindMaxIter(rundirs)
           maxgz == FindMaxIter(runarch)
           r == RunCount(htype[p], maxdir, maxgz)
       IN /\ allocs' = Append(allocs, [t |-> htype[p], id |-> r, maxdir |-> maxdir, maxgz |-> maxgz])
          /\ IF r = None
             THEN /\ res' = [res EXCEPT ![p] = "InvalidData"]
                  /\ pc' = [pc EXCEPT ![p] = "none"]
                  /\ runcount' = runcount
             ELSE /\ runcount' = [runcount EXCEPT ![p] = r]
                  /\ pc' = [pc EXCEPT ![p] = "mkrun"]
                  /\ res' = res
    /\ UNCHANGED <<kind, htype, compress, lockVars, handleVars, fsVars, workerVars, histVars>>
    /\ rundirs' = IF RunCount(htype[p], FindMaxIter(rundirs), FindMaxIter(runarch)) = None
                  THEN rundirs
                  ELSE rundirs \cup {RunCount(htype[p], FindMaxIter(rundirs), FindMaxIter(runarch))}
    /\ UNCHANGED <<runarch, daycount, framecount, last_dir, tdelta, rfiles, hourcount, thour>>
    /\ LogQueue

\* The find_max_iter scans and the checked increments.
RunScan(p) ==
    /\ pc[p] = "scan"
    /\ LET maxdir == FindMaxIter(rundirs)
           maxgz == FindMaxIter(runarch)
           r == RunCount(htype[p], maxdir, maxgz)
       IN /\ allocs' = Append(allocs, [t |-> htype[p], id |-> r, maxdir |-> maxdir, maxgz |-> maxgz])
          /\ IF r = None
             THEN /\ res' = [res EXCEPT ![p] = "InvalidData"]
                  /\ pc' = [pc EXCEPT ![p] = "none"]
                  /\ runcount' = runcount
             ELSE /\ runcount' = [runcount EXCEPT ![p] = r]
                  /\ pc' = [pc EXCEPT ![p] = "mkrun"]
                  /\ res' = res
    /\ UNCHANGED <<kind, htype, compress, lockVars, handleVars, fsVars, workerVars, histVars>>
    /\ UNCHANGED <<rundirs, runarch, daycount, framecount, last_dir, tdelta, rfiles, hourcount, thour>>
    /\ LogQueue

\* create_dir_all(root/<run>) and, for the day-bounded types, of its day 0.
RunMkdir(p) ==
    /\ pc[p] = "mkrun"
    /\ rundirs' = rundirs \cup {runcount[p]}
    /\ daycount' = [daycount EXCEPT ![p] = Zero]
    /\ framecount' = [framecount EXCEPT ![p] = IF htype[p] = "ExecCountSingleFrame" THEN <<0, 0, 0, 0>> ELSE Zero]
    /\ IF htype[p] = "ExecCountSingleFrame"
       THEN /\ pc' = [pc EXCEPT ![p] = "idle"]
            /\ res' = [res EXCEPT ![p] = "Ok"]
            /\ UNCHANGED <<dirs, last_dir>>
       ELSE /\ dirs' = dirs \cup {RunDayDir(runcount[p], Zero)}
            /\ last_dir' = [last_dir EXCEPT ![p] = RunDayDir(runcount[p], Zero)]
            /\ pc' = [pc EXCEPT ![p] = "get_compressor"]
            /\ res' = res
    /\ UNCHANGED <<kind, htype, compress, lockVars, handleVars, fpath, ino, arch, workerVars, histVars>>
    /\ hourcount' = [hourcount EXCEPT ![p] = 0]
    /\ UNCHANGED <<runarch, runcount, tdelta, rfiles, allocs, thour>>
    /\ LogQueue

\* The fields of a run-based handle after it is dropped.
RunGone(p) ==
    /\ HandleGone(p)
    /\ runcount' = [runcount EXCEPT ![p] = Zero]
    /\ daycount' = [daycount EXCEPT ![p] = Zero]
    /\ framecount' = [framecount EXCEPT ![p] = Zero]
    /\ last_dir' = [last_dir EXCEPT ![p] = EmptyPath]
    /\ tdelta' = [tdelta EXCEPT ![p] = Zero]
    /\ hourcount' = [hourcount EXCEPT ![p] = 0]
    /\ thour' = [thour EXCEPT ![p] = 0]
    /\ UNCHANGED <<rundirs, runarch, rfiles, allocs>>

\* Drop for the run-based handles: the sentinel is sent by every handle that
\* holds a sender, the thread joined by the one that holds the join handle.
RunDrop(p) ==
    /\ pc[p] = "idle"
    /\ htype[p] \in RunTypes
    /\ queue' = IF compress_tx[p] THEN [queue EXCEPT ![htype[p]] = Send(htype[p], Stop)] ELSE queue
    /\ IF compress_hdl[p]
       THEN /\ pc' = [pc EXCEPT ![p] = "join"]
            /\ UNCHANGED <<kind, compress, res, handleVars, calls, runVars>>
       ELSE /\ RunGone(p)
            /\ UNCHANGED call
    /\ UNCHANGED <<htype, lockVars, fsVars, slot, wpc, wjob, crashed>>
    /\ LogQueue

\* A join that returns without waiting for the thread.
RunJoin_NoWait(p) ==
    /\ pc[p] = "join"
    /\ htype[p] \in RunTypes
    /\ RunGone(p)
    /\ UNCHANGED <<htype, lockVars, call, fsVars, workerVars, crashed>>
    /\ LogQueue

\* handle.join() in Drop for the run-based handles, then the fields are dropped.
RunJoin(p) ==
    /\ pc[p] = "join"
    /\ htype[p] \in RunTypes
    /\ wpc[htype[p]] = "exited"
    /\ RunGone(p)
    /\ UNCHANGED <<htype, lockVars, call, fsVars, workerVars, crashed>>
    /\ LogQueue

\* ExecCountDailySingleFrame::store, or store_custom_writer called by the
\* program, entered with its tdelta.
FrameStoreBegin(p, el) ==
    /\ pc[p] = "idle"
    /\ htype[p] = "ExecCountDailySingleFrame"
    /\ Cardinality(rfiles) < MaxStores
    /\ framecount[p][1] = 0 => framecount[p][2] < MaxStores
    /\ tdelta' = [tdelta EXCEPT ![p] = el]
    /\ res' = [res EXCEPT ![p] = "pending"]
    /\ pc' = [pc EXCEPT ![p] = "fstore"]
    /\ UNCHANGED <<kind, htype, compress, lockVars, handleVars, fsVars, workerVars, histVars>>
    /\ UNCHANGED <<rundirs, runarch, runcount, daycount, framecount, last_dir, rfiles, allocs, hourcount, thour>>
    /\ LogQueue

\* store_custom_writer up to the counters: the day of the call, the send of the
\* finished day's directory when the day advanced, the new counters and
\* last_dir; the checked increment of the frame counter when it did not.
FrameRotate(p) ==
    /\ pc[p] = "fstore"
    /\ LET day == AsU32(tdelta[p])
           fileidx == CheckedAdd1(framecount[p])
       IN IF Gt(day, daycount[p])
          THEN /\ queue' = IF compress_tx[p]
                           THEN [queue EXCEPT ![htype[p]] = Send(htype[p], last_dir[p])]
                           ELSE queue
               /\ framecount' = [framecount EXCEPT ![p] = Zero]
               /\ daycount' = [daycount EXCEPT ![p] = day]
               /\ last_dir' = [last_dir EXCEPT ![p] = RunDayDir(runcount[p], day)]
               /\ pc' = [pc EXCEPT ![p] = "fmkdir"]
               /\ res' = res
          ELSE IF fileidx = None
               THEN /\ res' = [res EXCEPT ![p] = "InvalidData"]
                    /\ pc' = [pc EXCEPT ![p] = "idle"]
                    /\ UNCHANGED <<daycount, framecount, last_dir, queue>>
               ELSE /\ framecount' = [framecount EXCEPT ![p] = fileidx]
                    /\ pc' = [pc EXCEPT ![p] = "fwrite"]
                    /\ UNCHANGED <<daycount, last_dir, queue, res>>
    /\ UNCHANGED <<kind, htype, compress, lockVars, handleVars, fsVars, slot, wpc, wjob, histVars>>
    /\ UNCHANGED <<rundirs, runarch, runcount, tdelta, rfiles, allocs, hourcount, thour>>
    /\ LogQueue

\* create_dir_all(&self.last_dir) of the day the call rotated to.
FrameMkdir(p) ==
    /\ pc[p] = "fmkdir"
    /\ dirs' = dirs \cup {last_dir[p]}
    /\ pc' = [pc EXCEPT ![p] = "fwrite"]
    /\ UNCHANGED <<kind, htype, compress, res, lockVars, handleVars, fpath, ino, arch, workerVars, histVars>>
    /\ UNCHANGED runVars
    /\ LogQueue

\* filename.exists() at the end of store_custom_writer, then File::create of the
\* path it returned and the write.
FrameWrite(p) ==
    /\ pc[p] = "fwrite"
    /\ LET filename == <<last_dir[p], framecount[p]>>
       IN IF filename \in rfiles
          THEN /\ res' = [res EXCEPT ![p] = "AlreadyExists"]
               /\ rfiles' = rfiles
          ELSE IF last_dir[p] \in dirs
               THEN /\ rfiles' = rfiles \cup {filename}
                    /\ res' = [res EXCEPT ![p] = "Ok"]
               ELSE /\ res' = [res EXCEPT ![p] = "Err"]
                    /\ rfiles' = rfiles
    /\ pc' = [pc EXCEPT ![p] = "idle"]
    /\ UNCHANGED <<kind, htype, compress, lockVars, handleVars, fsVars, workerVars, histVars>>
    /\ UNCHANGED <<rundirs, runarch, runcount, daycount, framecount, last_dir, tdelta, allocs, hourcount, thour>>
    /\ LogQueue

\* filename.exists() at the end of ExecCountDailySingleFrame::store_custom_writer
\* called by the program itself (the call is the same as store up to here):
\* the path is returned and no file is created.
FrameCustomWriter(p) ==
    /\ pc[p] = "fwrite"
    /\ res' = [res EXCEPT ![p] = IF <<last_dir[p], framecount[p]>> \in rfiles
                                 THEN "AlreadyExists" ELSE "OkPath"]
    /\ pc' = [pc EXCEPT ![p] = "idle"]
    /\ UNCHANGED <<kind, htype, compress, lockVars, handleVars, fsVars, workerVars, histVars>>
    /\ UNCHANGED runVars
    /\ LogQueue

\* ExecCountSingleFrame::store or store_custom_writer entered: the checked
\* increment of the u64 frame counter.
CountStoreBegin(p) ==
    /\ pc[p] = "idle"
    /\ htype[p] = "ExecCountSingleFrame"
    /\ Cardinality(rfiles) < MaxStores
    /\ framecount[p][1] = 0 /\ framecount[p][2] = 0 /\ framecount[p][3] = 0 => framecount[p][4] < MaxStores
    /\ LET fileidx == CheckedAdd1_64(framecount[p])
       IN IF fileidx = None
          THEN /\ res' = [res EXCEPT ![p] = "InvalidData"]
               /\ UNCHANGED <<pc, framecount>>
          ELSE /\ framecount' = [framecount EXCEPT ![p] = fileidx]
               /\ pc' = [pc EXCEPT ![p] = "cwrite"]
               /\ res' = [res EXCEPT ![p] = "pending"]
    /\ UNCHANGED <<kind, htype, compress, lockVars, handleVars, fsVars, workerVars, histVars>>
    /\ UNCHANGED <<rundirs, runarch, runcount, daycount, last_dir, tdelta, rfiles, allocs, hourcount, thour>>
    /\ LogQueue

\* ExecCountSingleFrame::store from filename.exists() on: AlreadyExists, or
\* File::create of root/<run>/<frame> and the write.
CountStoreWrite(p) ==
    /\ pc[p] = "cwrite"
    /\ LET filename == <<RunRootDir(runcount[p]), framecount[p]>>
       IN IF filename \in rfiles
          THEN /\ res' = [res EXCEPT ![p] = "AlreadyExists"]
               /\ rfiles' = rfiles
          ELSE IF runcount[p] \in rundirs
               THEN /\ rfiles' = rfiles \cup {filename}
                    /\ res' = [res EXCEPT ![p] = "Ok"]
               ELSE /\ res' = [res EXCEPT ![p] = "Err"]
                    /\ rfiles' = rfiles
    /\ pc' = [pc EXCEPT ![p] = "idle"]
    /\ UNCHANGED <<kind, htype, compress, lockVars, handleVars, fsVars, workerVars, histVars>>
    /\ UNCHANGED <<rundirs, runarch, runcount, daycount, framecount, last_dir, tdelta, allocs, hourcount, thour>>
    /\ LogQueue

\* ExecCountSingleFrame::store_custom_writer from filename.exists() on: the
\* path is returned and no file is created.
CountCustomWriter(p) ==
    /\ pc[p] = "cwrite"
    /\ res' = [res EXCEPT ![p] = IF <<RunRootDir(runcount[p]), framecount[p]>> \in rfiles
                                 THEN "AlreadyExists" ELSE "OkPath"]
    /\ pc' = [pc EXCEPT ![p] = "idle"]
    /\ UNCHANGED <<kind, htype, compress, lockVars, handleVars, fsVars, workerVars, histVars>>
    /\ UNCHANGED runVars
    /\ LogQueue

\* ExecCountDaily::store entered with its tdelta.
ExecStoreBegin(p, el) ==
    /\ pc[p] = "idle"
    /\ htype[p] = "ExecCountDaily"
    /\ tdelta' = [tdelta EXCEPT ![p] = el]
    /\ res' = [res EXCEPT ![p] = "pending"]
    /\ pc' = [pc EXCEPT ![p] = "estore"]
    /\ UNCHANGED <<kind, htype, compress, lockVars, handleVars, fsVars, workerVars, histVars>>
    /\ UNCHANGED <<rundirs, runarch, runcount, daycount, framecount, last_dir, rfiles, allocs, hourcount, thour>>
    /\ LogQueue

\* get_writer_checked up to the counters: the day of the call and, when it is
\* past self.daycount, the send of the finished day's directory, the new
\* daycount and last_dir.
ExecRotate(p) ==
    /\ pc[p] = "estore"
    /\ LET day == AsU32(tdelta[p])
       IN IF Gt(day, daycount[p])
          THEN /\ queue' = IF compress_tx[p]
                           THEN [queue EXCEPT ![htype[p]] = Send(htype[p], last_dir[p])]
                           ELSE queue
               /\ daycount' = [daycount EXCEPT ![p] = day]
               /\ last_dir' = [last_dir EXCEPT ![p] = RunDayDir(runcount[p], day)]
               /\ pc' = [pc EXCEPT ![p] = "emkdir"]
          ELSE /\ pc' = [pc EXCEPT ![p] = "ewrite"]
               /\ UNCHANGED <<daycount, last_dir, queue>>
    /\ UNCHANGED <<kind, htype, compress, res, lockVars, handleVars, fsVars, slot, wpc, wjob, histVars>>
    /\ UNCHANGED <<rundirs, runarch, runcount, framecount, tdelta, rfiles, allocs, hourcount, thour>>
    /\ LogQueue

\* create_dir_all(&self.last_dir) of the day the call rotated to; self.writer = None.
ExecMkdir(p) ==
    /\ pc[p] = "emkdir"
    /\ dirs' = dirs \cup {last_dir[p]}
    /\ writer' = [writer EXCEPT ![p] = 0]
    /\ pc' = [pc EXCEPT ![p] = "ewrite"]
    /\ UNCHANGED <<kind, htype, compress, res, lockVars, compress_tx, compress_hdl, last_date,
                   last_hour, current_dir, call, fpath, ino, arch, workerVars, histVars>>
    /\ UNCHANGED runVars
    /\ LogQueue

\* The rest of get_writer_checked and the write: the day's file is opened for
\* append when it exists and the handle holds no writer, created when it does
\* not exist; writer is 1 for a handle that holds one.
ExecWrite(p) ==
    /\ pc[p] = "ewrite"
    /\ LET filename == <<last_dir[p], daycount[p]>>
       IN IF filename \in rfiles
          THEN /\ writer' = [writer EXCEPT ![p] = 1]
               /\ res' = [res EXCEPT ![p] = "Ok"]
               /\ rfiles' = rfiles
          ELSE IF last_dir[p] \in dirs
               THEN /\ rfiles' = rfiles \cup {filename}
                    /\ writer' = [writer EXCEPT ![p] = 1]
                    /\ res' = [res EXCEPT ![p] = "Ok"]
               ELSE /\ res' = [res EXCEPT ![p] = "Err"]
                    /\ UNCHANGED <<rfiles, writer>>
    /\ pc' = [pc EXCEPT ![p] = "idle"]
    /\ UNCHANGED <<kind, htype, compress, lockVars, compress_tx, compress_hdl, last_date,
                   last_hour, current_dir, call, fsVars, workerVars, histVars>>
    /\ UNCHANGED <<rundirs, runarch, runcount, daycount, framecount, last_dir, tdelta, allocs, hourcount, thour>>
    /\ LogQueue

\* The hours inside a day of the tdelta arguments.
ElapsedHours == {0, 1}

\* ExecCountHourly::get_writer_checked: ((tdelta - daycount * 86400) / 3600).floor()
\* as u16, with daycount the saturated day: at 2^32 days the remainder is a day
\* and the hours.
HourCount(td, hr) == IF td[1] > LimbMax THEN 24 + hr ELSE hr

\* ExecCountHourly::store entered with its tdelta, of el days and hr hours.
HourStoreBegin(p, el, hr) ==
    /\ pc[p] = "idle"
    /\ htype[p] = "ExecCountHourly"
    /\ tdelta' = [tdelta EXCEPT ![p] = el]
    /\ thour' = [thour EXCEPT ![p] = hr]
    /\ res' = [res EXCEPT ![p] = "pending"]
    /\ pc' = [pc EXCEPT ![p] = "hstore"]
    /\ UNCHANGED <<kind, htype, compress, lockVars, handleVars, fsVars, workerVars, histVars>>
    /\ UNCHANGED <<rundirs, runarch, runcount, daycount, framecount, last_dir, rfiles, allocs, hourcount>>
    /\ LogQueue

\* get_writer_checked up to the day: when the day of the call is past
\* self.daycount, the send of the finished day's directory, the new daycount
\* and last_dir.
HourRotate(p) ==
    /\ pc[p] = "hstore"
    /\ LET day == AsU32(tdelta[p])
       IN IF Gt(day, daycount[p])
          THEN /\ queue' = IF compress_tx[p]
                           THEN [queue EXCEPT ![htype[p]] = Send(htype[p], last_dir[p])]
                           ELSE queue
               /\ daycount' = [daycount EXCEPT ![p] = day]
               /\ last_dir' = [last_dir EXCEPT ![p] = RunDayDir(runcount[p], day)]
               /\ pc' = [pc EXCEPT ![p] = "hmkdir"]
          ELSE /\ pc' = [pc EXCEPT ![p] = "hwrite"]
               /\ UNCHANGED <<daycount, last_dir, queue>>
    /\ UNCHANGED <<kind, htype, compress, res, lockVars, handleVars, fsVars, slot, wpc, wjob, histVars>>
    /\ UNCHANGED <<rundirs, runarch, runcount, framecount, tdelta, rfiles, allocs, hourcount, thour>>
    /\ LogQueue

\* create_dir_all(&self.last_dir) of the day the call rotated to; self.writer = None.
HourMkdir(p) ==
    /\ pc[p] = "hmkdir"
    /\ dirs' = dirs \cup {last_dir[p]}
    /\ writer' = [writer EXCEPT ![p] = 0]
    /\ pc' = [pc EXCEPT ![p] = "hwrite"]
    /\ UNCHANGED <<kind, htype, compress, res, lockVars, compress_tx, compress_hdl, last_date,
                   last_hour, current_dir, call, fpath, ino, arch, workerVars, histVars>>
    /\ UNCHANGED runVars
    /\ LogQueue

\* The rest of get_writer_checked and the write: hourcount is raised to the
\* hour of the call when that is greater; the file of self.hourcount in
\* last_dir is opened for append when it exists and the handle holds no
\* writer, created when it does not exist.
HourWrite(p) ==
    /\ pc[p] = "hwrite"
    /\ LET hc == HourCount(tdelta[p], thour[p])
           raised == hc > hourcount[p]
           h == IF raised THEN hc ELSE hourcount[p]
           filename == <<last_dir[p], Num(h)>>
       IN /\ hourcount' = [hourcount EXCEPT ![p] = h]
          /\ IF filename \in rfiles
             THEN /\ writer' = [writer EXCEPT ![p] = 1]
                  /\ res' = [res EXCEPT ![p] = "Ok"]
                  /\ rfiles' = rfiles
             ELSE IF last_dir[p] \in dirs
                  THEN /\ rfiles' = rfiles \cup {filename}
                       /\ writer' = [writer EXCEPT ![p] = 1]
                       /\ res' = [res EXCEPT ![p] = "Ok"]
                  ELSE /\ res' = [res EXCEPT ![p] = "Err"]
                       /\ writer' = [writer EXCEPT ![p] = IF raised THEN 0 ELSE @]
                       /\ rfiles' = rfiles
    /\ pc' = [pc EXCEPT ![p] = "idle"]
    /\ UNCHANGED <<kind, htype, compress, lockVars, compress_tx, compress_hdl, last_date,
                   last_hour, current_dir, call, fsVars, workerVars, histVars>>
    /\ UNCHANGED <<rundirs, runarch, runcount, daycount, framecount, last_dir, tdelta, allocs, thour>>
    /\ LogQueue

\* A root that holds any of RunNames as run directories and as archives; one
\* program constructing run-based handles of every type, storing frames with
\* the single-frame one and dropping them.
InitRun ==
    /\ InitHandles
    /\ rundirs \in SUBSET RunNames
    /\ runarch \in SUBSET RunNames

NextRun ==
    \E p \in Handles :
        \/ \E t \in RunTypes : OneThread(p) /\ RunNewBegin(p, t, "bin", FALSE)
        \/ RunScan(p)
        \/ RunMkdir(p)
        \/ GetCompressor(p)
        \/ \E el \in ElapsedDays : OneThread(p) /\ FrameStoreBegin(p, el)
        \/ FrameRotate(p)
        \/ FrameMkdir(p)
        \/ FrameWrite(p)
        \/ OneThread(p) /\ RunDrop(p)

SpecRun == InitRun /\ [][NextRun]_vars

(***************************************************************************)
(* Handles of two store types with archival in one process: a              *)
(* UtcSingleFrame handle and an ExecCountDailySingleFrame handle, and the  *)
(* compression threads their constructors start.  The two are constructed  *)
(* concurrently; the stores and the drops are calls of one thread.         *)
(***************************************************************************)
TwoTypes == {"UtcSingleFrame", "ExecCountDailySingleFrame"}

NextTypes ==
    \/ SingleNewBegin(1, "bin", TRUE)
    \/ RunNewBegin(2, "ExecCountDailySingleFrame", "bin", TRUE)
    \/ RunScan(2)
    \/ RunMkdir(2)
    \/ \E p \in Handles : GetCompressor(p)
    \/ \E ts \in Stamps : OneThread(1) /\ SingleStoreBegin(1, ts)
    \/ SingleCheckTime(1)
    \/ SingleStoreWrite(1)
    \/ \E el \in ElapsedDays : OneThread(2) /\ FrameStoreBegin(2, el)
    \/ FrameRotate(2)
    \/ FrameMkdir(2)
    \/ FrameWrite(2)
    \/ OneThread(1) /\ SingleDrop(1)
    \/ SingleJoin(1)
    \/ OneThread(2) /\ RunDrop(2)
    \/ RunJoin(2)
    \/ \E t \in TwoTypes : WRecv(t)
    \/ \E t \in TwoTypes : WRemove(t)

SpecTypes == Init /\ [][NextTypes]_vars

(***************************************************************************)
(* The two day-rotating run-based handles in one thread of one process, on *)
(* an empty root: handle 1 an ExecCountDailySingleFrame, handle 2 an       *)
(* ExecCountDaily, each with or without archival, and the compression      *)
(* threads of the two types.                                               *)
(***************************************************************************)
ExecTypes == {"ExecCountDailySingleFrame", "ExecCountDaily"}

NextExec ==
    \/ \E c \in BOOLEAN : OneThread(1) /\ RunNewBegin(1, "ExecCountDailySingleFrame", "bin", c)
    \/ \E c \in BOOLEAN : OneThread(2) /\ RunNewBegin(2, "ExecCountDaily", "bin", c)
    \/ \E p \in Handles : RunScan(p)
    \/ \E p \in Handles : RunMkdir(p)
    \/ \E p \in Handles : GetCompressor(p)
    \/ \E el \in ElapsedDays : OneThread(1) /\ FrameStoreBegin(1, el)
    \/ FrameRotate(1)
    \/ FrameMkdir(1)
    \/ FrameWrite(1)
    \/ \E el \in ElapsedDays : OneThread(2) /\ ExecStoreBegin(2, el)
    \/ ExecRotate(2)
    \/ ExecMkdir(2)
    \/ ExecWrite(2)
    \/ \E p \in Handles : OneThread(p) /\ RunDrop(p)
    \/ \E p \in Handles : RunJoin(p)
    \/ \E t \in ExecTypes : WRecv(t)
    \/ \E t \in ExecTypes : WRemove(t)

SpecExec == Init /\ [][NextExec]_vars

(***************************************************************************)
(* Two run-based handles without archival constructed on one empty root by *)
(* two threads or processes: the scans and the directory creations of the  *)
(* two constructors interleave freely; the store calls are made one at a   *)
(* time.                                                                   *)
(***************************************************************************)
RaceTypes == {"ExecCountSingleFrame", "ExecCountDaily", "ExecCountDailySingleFrame"}

NextRace ==
    \/ \E p \in Handles, t \in RaceTypes : RunNewBegin(p, t, "bin", FALSE)
    \/ \E p \in Handles : RunScan(p)
    \/ \E p \in Handles : RunMkdir(p)
    \/ \E p \in Handles : GetCompressor(p)
    \/ \E p \in Handles, el \in ElapsedDays : OneThread(p) /\ FrameStoreBegin(p, el)
    \/ \E p \in Handles : FrameRotate(p)
    \/ \E p \in Handles : FrameMkdir(p)
    \/ \E p \in Handles : FrameWrite(p)
    \/ \E p \in Handles : OneThread(p) /\ CountStoreBegin(p)
    \/ \E p \in Handles : CountStoreWrite(p)
    \/ \E p \in Handles : CountCustomWriter(p)
    \/ \E p \in Handles, el \in ElapsedDays : OneThread(p) /\ ExecStoreBegin(p, el)
    \/ \E p \in Handles : ExecRotate(p)
    \/ \E p \in Handles : ExecMkdir(p)
    \/ \E p \in Handles : ExecWrite(p)
    \/ \E p \in Handles : OneThread(p) /\ RunDrop(p)

SpecRace == Init /\ [][NextRace]_vars

(***************************************************************************)
(* One ExecCountDailySingleFrame handle with archival on an empty root,    *)
(* used through store and through store_custom_writer, and its             *)
(* compression thread.                                                     *)
(***************************************************************************)
NextCustom ==
    \/ RunNewBegin(1, "ExecCountDailySingleFrame", "bin", TRUE)
    \/ RunScan(1)
    \/ RunMkdir(1)
    \/ GetCompressor(1)
    \/ \E el \in ElapsedDays : FrameStoreBegin(1, el)
    \/ FrameRotate(1)
    \/ FrameMkdir(1)
    \/ FrameWrite(1)
    \/ FrameCustomWriter(1)
    \/ RunDrop(1)
    \/ RunJoin(1)
    \/ WRecv("ExecCountDailySingleFrame")
    \/ WRemove("ExecCountDailySingleFrame")

SpecCustom == Init /\ [][NextCustom]_vars

(***************************************************************************)
(* One binary UtcDaily handle with archival whose store calls carry        *)
(* payloads of any size, some of them beyond the length field, and its     *)
(* compression thread.                                                     *)
(***************************************************************************)
NextBig ==
    \/ HandleStep(1, {"bin"}, {TRUE})
    \/ \E ts \in Stamps : StoreBeginOversize(1, ts)
    \/ WRecv("UtcDaily")
    \/ WRemove("UtcDaily")

SpecBig == Init /\ [][NextBig]_vars

(***************************************************************************)
(* One ExecCountHourly handle with archival on an empty root, called with  *)
(* elapsed times that never go back, and its compression thread.           *)
(***************************************************************************)
\* The elapsed time of the call is not before that of the handle's last call.
NotBefore(p, el, hr) == Gt(el, tdelta[p]) \/ (el = tdelta[p] /\ hr >= thour[p])

NextHourRun ==
    \/ RunNewBegin(1, "ExecCountHourly", "bin", TRUE)
    \/ RunScan(1)
    \/ RunMkdir(1)
    \/ GetCompressor(1)
    \/ \E el \in ElapsedDays, hr \in ElapsedHours : NotBefore(1, el, hr) /\ HourStoreBegin(1, el, hr)
    \/ HourRotate(1)
    \/ HourMkdir(1)
    \/ HourWrite(1)
    \/ RunDrop(1)
    \/ RunJoin(1)
    \/ WRecv("ExecCountHourly")
    \/ WRemove("ExecCountHourly")

SpecHourRun == Init /\ [][NextHourRun]_vars

(***************************************************************************)
(* One day-rotating run-based handle at a time on an empty root, of any    *)
(* of the three types, with archival, called with elapsed times in any     *)
(* order, and the compression threads of the three types.                  *)
(***************************************************************************)
DayTypes == {"ExecCountDailySingleFrame", "ExecCountDaily", "ExecCountHourly"}

NextDays ==
    \/ \E t \in DayTypes : RunNewBegin(1, t, "bin", TRUE)
    \/ RunScan(1)
    \/ RunMkdir(1)
    \/ GetCompressor(1)
    \/ \E el \in ElapsedDays : FrameStoreBegin(1, el)
    \/ FrameRotate(1)
    \/ FrameMkdir(1)
    \/ FrameWrite(1)
    \/ \E el \in ElapsedDays : ExecStoreBegin(1, el)
    \/ ExecRotate(1)
    \/ ExecMkdir(1)
    \/ ExecWrite(1)
    \/ \E el \in ElapsedDays, hr \in ElapsedHours : HourStoreBegin(1, el, hr)
    \/ HourRotate(1)
    \/ HourMkdir(1)
    \/ HourWrite(1)
    \/ RunDrop(1)
    \/ RunJoin(1)
    \/ \E t \in DayTypes : WRecv(t)
    \/ \E t \in DayTypes : WRemove(t)

SpecDays == Init /\ [][NextDays]_vars

(***************************************************************************)
(* One binary UtcDaily handle with archival and its compression thread,    *)
(* on a disk where the last writes of an archive may fail.                 *)
(***************************************************************************)
NextArchive ==
    \/ HandleStep(1, {"bin"}, {TRUE})
    \/ WRecv("UtcDaily")
    \/ \E finished \in BOOLEAN : WRemoveDrop("UtcDaily", finished)

SpecArchive == Init /\ [][NextArchive]_vars

\* The same handle on a disk that fails no write, called with timestamps that
\* never go back, and its compression thread scheduled fairly: a step the
\* thread can take is taken in the end.
Monotone(ts) == \A i \in 1..Len(calls) : calls[i].ts <= ts

NextLive ==
    \/ \E k \in {"bin"}, c \in {TRUE} : NewBegin(1, k, c, "UtcDaily")
    \/ GetLockExists(1)
    \/ GetLockCreateNew(1)
    \/ LockFileCreate(1)
    \/ LockFileLock(1)
    \/ GetCompressor(1)
    \/ \E ts \in Stamps : Monotone(ts) /\ StoreBegin(1, ts)
    \/ CheckTimeMkdir(1)
    \/ StoreWrite(1)
    \/ Drop(1)
    \/ Join(1)
    \/ LockFileDropRemove(1)
    \/ LockFileDropUnlock(1)
    \/ WRecv("UtcDaily")
    \/ WRemove("UtcDaily")

SpecLive ==
    /\ Init /\ [][NextLive]_vars
    /\ WF_vars(WRecv("UtcDaily"))
    /\ WF_vars(WRemove("UtcDaily"))

(***************************************************************************)
(* One binary UtcDaily handle with archival, called with timestamps that   *)
(* never go back, on a disk where the creation of a day directory may      *)
(* fail, and its compression thread.                                       *)
(***************************************************************************)
NextRetry ==
    \/ NewBegin(1, "bin", TRUE, "UtcDaily")
    \/ GetLockExists(1)
    \/ GetLockCreateNew(1)
    \/ LockFileCreate(1)
    \/ LockFileLock(1)
    \/ GetCompressor(1)
    \/ \E ts \in Stamps : Monotone(ts) /\ StoreBegin(1, ts)
    \/ CheckTimeMkdir(1)
    \/ CheckTimeMkdirFails(1)
    \/ StoreWrite(1)
    \/ Drop(1)
    \/ Join(1)
    \/ LockFileDropRemove(1)
    \/ LockFileDropUnlock(1)
    \/ WRecv("UtcDaily")
    \/ WRemove("UtcDaily")

SpecRetry == Init /\ [][NextRetry]_vars

(***************************************************************************)
(* Teardown with a shared compression thread: two ExecCountDaily handles   *)
(* with archival in one thread of one process, constructed, used and       *)
(* dropped in any order, and the compression thread of the type.  Every    *)
(* archival job the thread takes finishes.                                 *)
(***************************************************************************)
NextStop ==
    \/ \E p \in Handles : OneThread(p) /\ RunNewBegin(p, "ExecCountDaily", "bin", TRUE)
    \/ \E p \in Handles : RunScan(p)
    \/ \E p \in Handles : RunMkdir(p)
    \/ \E p \in Handles : GetCompressor(p)
    \/ \E p \in Handles, el \in ElapsedDays : OneThread(p) /\ ExecStoreBegin(p, el)
    \/ \E p \in Handles : ExecRotate(p)
    \/ \E p \in Handles : ExecMkdir(p)
    \/ \E p \in Handles : ExecWrite(p)
    \/ \E p \in Handles : OneThread(p) /\ RunDrop(p)
    \/ \E p \in Handles : RunJoin(p)
    \/ WRecv("ExecCountDaily")
    \/ WRemove("ExecCountDaily")

SpecStop == Init /\ [][NextStop]_vars

\* The same handles with the threads scheduled fairly: a step the compression
\* thread can take is taken in the end (every archival job finishes), and a
\* join whose thread has exited returns.
SpecStopLive ==
    /\ Init /\ [][NextStop]_vars
    /\ WF_vars(WRecv("ExecCountDaily"))
    /\ WF_vars(WRemove("ExecCountDaily"))
    /\ \A p \in Handles : WF_vars(RunJoin(p))

(***************************************************************************)
(* The lock protocol alone: NProcs processes, each constructing and        *)
(* tearing down a handle without archival, any of them free to die.        *)
(***************************************************************************)
NextLock ==
    \E p \in Procs :
        \/ \E k \in Kinds : NewBegin(p, k, FALSE, "UtcDaily")
        \/ GetLockExists(p)
        \/ GetLockCreateNew(p)
        \/ LockFileCreate(p)
        \/ LockFileLock(p)
        \/ GetCompressor(p)
        \/ Drop(p)
        \/ LockFileDropRemove(p)
        \/ LockFileDropUnlock(p)
        \/ CrashProc(p)

SpecLock == Init /\ [][NextLock]_vars

(***************************************************************************)
(* Contention inside one process: two threads, each constructing and       *)
(* dropping a UtcDaily handle of either kind, with or without archival, on *)
(* one root, their steps interleaved freely, and the compression thread.   *)
(* No frame is stored.                                                     *)
(***************************************************************************)
NextContend ==
    \/ \E p \in Handles, k \in Kinds, c \in BOOLEAN : NewBegin(p, k, c, "UtcDaily")
    \/ \E p \in Handles : GetLockExists(p)
    \/ \E p \in Handles : GetLockCreateNew(p)
    \/ \E p \in Handles : LockFileCreate(p)
    \/ \E p \in Handles : LockFileLock(p)
    \/ \E p \in Handles : GetCompressor(p)
    \/ \E p \in Handles : Drop(p)
    \/ \E p \in Handles : Join(p)
    \/ \E p \in Handles : LockFileDropRemove(p)
    \/ \E p \in Handles : LockFileDropUnlock(p)
    \/ WRecv("UtcDaily")

SpecContend == Init /\ [][NextContend]_vars

(***************************************************************************)
(* The lock and the compression thread together: two threads, each         *)
(* constructing, using and dropping a binary UtcDaily handle with archival *)
(* on one root, the system calls of their constructions and teardowns      *)
(* interleaved freely, and the compression thread.                         *)
(***************************************************************************)
NextOwner ==
    \/ \E p \in Handles : NewBegin(p, "bin", TRUE, "UtcDaily")
    \/ \E p \in Handles : GetLockExists(p)
    \/ \E p \in Handles : GetLockCreateNew(p)
    \/ \E p \in Handles : LockFileCreate(p)
    \/ \E p \in Handles : LockFileLock(p)
    \/ \E p \in Handles : GetCompressor(p)
    \/ \E p \in Handles, ts \in Stamps : StoreBegin(p, ts)
    \/ \E p \in Handles : CheckTimeMkdir(p)
    \/ \E p \in Handles : StoreWrite(p)
    \/ \E p \in Handles : Drop(p)
    \/ \E p \in Handles : Join(p)
    \/ \E p \in Handles : LockFileDropRemove(p)
    \/ \E p \in Handles : LockFileDropUnlock(p)
    \/ WRecv("UtcDaily")
    \/ WRemove("UtcDaily")

SpecOwner == Init /\ [][NextOwner]_vars

(***************************************************************************)
(* Claims about the lock.                                                  *)
(***************************************************************************)
Constructing(p) == pc[p] \in {"get_lock", "create_new", "lf_create", "lf_lock"}
LockErrors == {"AlreadyExists", "WouldBlock"}
FailsStep(p) == Constructing(p) /\ pc'[p] = "none" /\ res'[p] \in LockErrors
TakesLockStep(p) == Constructing(p) /\ pc'[p] # pc[p] /\ res'[p] # "none"
SameLock(p, q) == p # q /\ pc[q] # "none" /\ LockOf(q) = LockOf(p)

\* C1: under every interleaving of the construction and teardown steps, at most
\* one live handle at a time holds the lock of a given root and format kind.
C1_OneLiveHolder ==
    \A p, q \in Procs :
        (p # q /\ Live(p) /\ Live(q) /\ HoldsLock(p) /\ HoldsLock(q)) => LockOf(p) # LockOf(q)

\* A holder in teardown has removed the file and still holds the flock of the
\* unlinked inode, a second handle is live on a new inode, a third is between
\* its exists() test and its create_new.
C1_Witness ==
    \E p, q, r \in Procs :
        /\ p # q /\ q # r /\ p # r
        /\ LockOf(p) = LockOf(q) /\ LockOf(q) = LockOf(r)
        /\ Live(p) /\ HoldsLock(p)
        /\ pc[q] = "lf_unlock" /\ HoldsLock(q)
        /\ pc[r] = "create_new"

\* C2: while a handle of a root and kind is live, every step of a second
\* construction against the same root and kind fails at once with a lock error;
\* no step of a construction ever waits; and once no other handle of the kind is
\* under construction, live or in teardown (and none died holding the lock),
\* a construction does not fail.
C2_NeverWaits ==
    \A p \in Procs :
        Constructing(p) =>
            ENABLED (GetLockExists(p) \/ GetLockCreateNew(p) \/ LockFileCreate(p) \/ LockFileLock(p))

C2_Step ==
    \A p \in Procs :
        TakesLockStep(p) =>
            /\ (\E q \in Procs : SameLock(p, q) /\ Live(q)) => FailsStep(p)
            /\ ((\A q \in Procs : ~SameLock(p, q)) /\ kind[p] \notin crashed) => ~FailsStep(p)

C2_ContentionFailsFast == [](C2_NeverWaits) /\ [][C2_Step]_vars

\* One construction has failed on contention, the holder it may have failed
\* against is finishing its teardown, and a further construction is live.
C2_Witness ==
    \E p, q, r \in Procs :
        /\ p # q /\ q # r /\ p # r
        /\ LockOf(p) = LockOf(q) /\ LockOf(q) = LockOf(r)
        /\ pc[p] = "none" /\ res[p] \in LockErrors
        /\ pc[q] = "lf_unlock"
        /\ Live(r)

\* C3: a construction fails on the lock only because of a handle of the same
\* kind (one under construction, live, in teardown, or dead with its lock file
\* left behind), never because of a handle of another kind.
C3_Step ==
    \A p \in Procs :
        FailsStep(p) =>
            \/ \E q \in Procs : q # p /\ pc[q] # "none" /\ kind[q] = kind[p]
            \/ kind[p] \in crashed

C3_KindsCoexist == [][C3_Step]_vars

\* Two handles of different kinds are live on the root at the same time.
C3_Witness ==
    \E p, q \in Procs : Live(p) /\ Live(q) /\ pc[p] = "idle" /\ pc[q] = "idle" /\ kind[p] # kind[q]

(***************************************************************************)
(* Frames on disk and in archives.                                         *)
(***************************************************************************)
OkCalls == {i \in 1..Len(calls) : calls[i].st = "Ok"}
LiveFrames == UNION {Frames(ContentOf(f)) : f \in {g \in FileKeys : fpath[g] # 0}}
ArchivedFrames == UNION {Frames(e[2]) : e \in UNION {arch[d].files : d \in AllDirs}}
\* The call of p's instance that follows its call i.
NextCallOf(i, j) ==
    /\ i < j
    /\ calls[i].h # 0
    /\ calls[j].h = calls[i].h
    /\ \A m \in (i + 1)..(j - 1) : calls[m].h # calls[i].h
\* The position of an element that occurs in a sequence.
Pos(c, x) == CHOOSE n \in 1..Len(c) : c[n] = x

\* C4: while two handles of different kinds with archival are live on one
\* root, every frame whose store call returned Ok is in a live segment file or
\* in the archive of a day directory.
C4_FramesRecoverable ==
    (\A p \in Handles : Live(p) /\ compress_tx[p]) =>
        \A i \in OkCalls : i \in LiveFrames \cup ArchivedFrames

\* C5: a handle never writes a frame into a segment it has rotated away from:
\* when a call for one day was followed by a call of the same handle for
\* another day, no call from that one on puts its frame into the first day's
\* directory.
C5_RetiredNeverWritten ==
    \A i, j, k \in 1..Len(calls) :
        ( /\ i < j /\ j <= k
          /\ calls[i].h # 0 /\ calls[j].h = calls[i].h /\ calls[k].h = calls[i].h
          /\ DateOf(calls[i].ts) # DateOf(calls[j].ts)
          /\ calls[k].st = "Ok" )
        => DirOf(calls[k].wrote) # DateOf(calls[i].ts)

\* C6: on a handle with archival, a store at T followed by a store at T + 25h
\* returns files in two distinct directories, and of the two calls exactly the
\* second sends the first directory to the compression thread; whenever a call
\* that leaves a directory is about to create the next one, its send of the
\* directory it leaves has been made.
C6_Pair ==
    \A i, j \in OkCalls :
        (NextCallOf(i, j) /\ compress_tx[calls[i].h] /\ calls[j].ts = calls[i].ts + 25)
        => /\ DirOf(calls[i].file) # DirOf(calls[j].file)
           /\ calls[j].sentdir = DirOf(calls[i].file)
           /\ calls[i].sentdir # DirOf(calls[i].file)
C6_SentBeforeMkdir ==
    \A p \in Handles :
        (pc[p] = "mkdir" /\ compress_tx[p] /\ last_date[p] \notin {NoDate, DateOf(call[p].ts)})
        => /\ calls[call[p].frame].sentdir = current_dir[p]
           /\ current_dir[p] = last_date[p]
C6_RotationArchivesOnce == C6_Pair /\ C6_SentBeforeMkdir
C6_Witness ==
    \E i, j \in OkCalls :
        /\ NextCallOf(i, j) /\ compress_tx[calls[i].h] /\ compress_hdl[calls[i].h]
        /\ calls[j].ts = calls[i].ts + 25
        /\ calls[j].sentdir = DirOf(calls[i].file)
        /\ DirOf(calls[j].file) \in dirs

\* C7: of two successive store calls of an hourly handle on one day, two in
\* the same hour put their frames into one file, the first frame still there
\* and before the second; one in the next hour puts its frame into the file
\* of its own hour, which it creates unless an earlier call wrote it, and the
\* previous hour's file does not hold that frame.
C7_HourlyAppend ==
    \A i, j \in OkCalls :
        (/\ NextCallOf(i, j) /\ htype[calls[i].h] = "UtcHourly"
         /\ DateOf(calls[i].ts) = DateOf(calls[j].ts))
        => /\ HourOf(calls[j].ts) = HourOf(calls[i].ts)
                => /\ calls[j].wrote = calls[i].wrote
                   /\ {i, j} \subseteq Frames(ContentOf(calls[j].wrote))
                   /\ Pos(ContentOf(calls[j].wrote), i) < Pos(ContentOf(calls[j].wrote), j)
           /\ HourOf(calls[j].ts) = HourOf(calls[i].ts) + 1
                => /\ calls[j].wrote = HourlyFile(DateOf(calls[j].ts), HourOf(calls[j].ts), kind[calls[j].h])
                   /\ calls[j].wrote # calls[i].wrote
                   /\ calls[j].how = "create" \/ \E m \in 1..(j - 1) : calls[m].wrote = calls[j].wrote
                   /\ j \notin Frames(ContentOf(calls[i].wrote))
                   /\ i \in Frames(ContentOf(calls[i].wrote))
\* Three calls of one hourly handle: two in one hour, both frames in that
\* hour's file, then one in the next hour, which created that hour's file.
C7_Witness ==
    \E i, j, m \in OkCalls :
        /\ NextCallOf(i, j) /\ NextCallOf(j, m) /\ htype[calls[i].h] = "UtcHourly"
        /\ DateOf(calls[i].ts) = DateOf(calls[m].ts)
        /\ HourOf(calls[j].ts) = HourOf(calls[i].ts)
        /\ HourOf(calls[m].ts) = HourOf(calls[j].ts) + 1
        /\ calls[j].how = "append" /\ calls[m].how = "create"
        /\ Frames(ContentOf(calls[j].wrote)) = {i, j}
        /\ Frames(ContentOf(calls[m].wrote)) = {m}

\* C8: a store call that returns Ok has appended its frame to the file whose
\* path it returns, and the frame is in no other file.
C8_StoredInReturnedFile ==
    \A i \in OkCalls : calls[i].wrote = calls[i].file

\* C9: every segment file has been initialized exactly once, and a binary
\* file holds its header once, at its beginning.
C9_InitOnce ==
    \A f \in FileKeys :
        fpath[f] # 0
        => /\ ino[fpath[f]].inits = 1
           /\ LET c == ContentOf(f)
              IN \A n \in 1..Len(c) : c[n] = Hdr <=> (n = 1 /\ f[3] = Extension("bin"))
C9_Witness ==
    \E f \in FileKeys :
        /\ fpath[f] # 0
        /\ f[3] = Extension("bin")
        /\ \E i, j \in Frames(ContentOf(f)) : calls[i].h = 0 /\ calls[j].h # 0 /\ calls[j].how = "append"

\* C10: the first store of a newly constructed handle into a segment file that
\* is on disk appends: the file holds what it held, followed by the new frame.
C10_Step ==
    \A p \in Handles :
        LET fr == call[p].frame
            f == calls[fr].file
        IN ( /\ pc[p] = "write" /\ pc'[p] = "idle" /\ res'[p] = "Ok"
             /\ MyCalls(p) = {fr}
             /\ fpath[f] # 0 )
           => /\ fpath'[f] = fpath[f]
              /\ ino'[fpath[f]].content = Append(ino[fpath[f]].content, fr)
C10_RestartAppends == [][C10_Step]_vars
C10_Witness ==
    \E f \in FileKeys :
        /\ fpath[f] # 0
        /\ \E i, j \in Frames(ContentOf(f)) :
              /\ calls[i].h = 0 /\ calls[j].h # 0 /\ MyCalls(calls[j].h) = {j}
              /\ Pos(ContentOf(f), i) < Pos(ContentOf(f), j)
              /\ Len(ContentOf(f)) = Pos(ContentOf(f), j)

\* C11: no two single-frame store calls that returned Ok resolved to the same
\* path.
C11_DistinctPaths ==
    \A i, j \in OkCalls : i # j => calls[i].file # calls[j].file

\* C12: a single-frame store call that reaches its target while the path is
\* on disk returns AlreadyExists and leaves the file as it is.
C12_Step ==
    \A p \in Handles :
        LET f == calls[call[p].frame].file
        IN (pc[p] = "write" /\ pc'[p] = "idle" /\ htype[p] = "UtcSingleFrame" /\ fpath[f] # 0)
           => /\ res'[p] = "AlreadyExists"
              /\ fpath'[f] = fpath[f]
              /\ ino'[fpath[f]] = ino[fpath[f]]
C12_ExistingKept == [][C12_Step]_vars
\* C13: the run id every run-based constructor computes is one more than the
\* highest numeric name among the run directories and the archives of the root.
C13_RunIdIsMaxPlusOne ==
    \A i \in 1..Len(allocs) :
        allocs[i].id # None => allocs[i].id = CheckedAdd1(Max2(allocs[i].maxdir, allocs[i].maxgz))

\* C14: a run id exceeds every numeric name the root held when it was computed,
\* directory or archive, and every run id computed before it.
C14_RunIdsIncrease ==
    \A j \in 1..Len(allocs) :
        allocs[j].id # None =>
            /\ Gt(allocs[j].id, allocs[j].maxdir)
            /\ Gt(allocs[j].id, allocs[j].maxgz)
            /\ \A i \in 1..(j - 1) : allocs[i].id # None => Gt(allocs[j].id, allocs[i].id)

\* C15: the run, day and frame counters are exact or the call fails with
\* InvalidData: a store whose elapsed days do not fit the day counter returns
\* InvalidData, a day counter that advances holds the elapsed days, a frame
\* counter that advances grows, and an allocated run id exceeds the highest
\* run directory.
C15_Step ==
    \A p \in Handles :
        /\ (pc[p] = "fstore" /\ pc'[p] # "fstore") =>
            /\ tdelta[p][1] > LimbMax => res'[p] = "InvalidData"
            /\ daycount'[p] # daycount[p] => daycount'[p] = tdelta[p]
            /\ (framecount'[p] # framecount[p] /\ daycount'[p] = daycount[p]) =>
                   Gt(framecount'[p], framecount[p])
        /\ (pc[p] = "scan" /\ pc'[p] = "mkrun") => Gt(runcount'[p], FindMaxIter(rundirs))
C15_NoSilentOverflow == [][C15_Step]_vars

\* C16: whatever handles exist, of whatever store types, at most one
\* compression thread is running in the process.
Running(t) == wpc[t] \in {"recv", "built"}
C16_OneWorker == Cardinality({t \in StoreTypes : Running(t)}) <= 1

\* C17: the channel slot is written once in the process and one construction
\* holds the join handle of the compression thread; every other construction
\* with archival gets a sender only.
C17_OneStarter ==
    /\ Cardinality({t \in StoreTypes : slot[t]}) <= 1
    /\ Cardinality({p \in Handles : compress_hdl[p]}) <= 1

\* C18: a compression thread that receives a request receives the one that was
\* sent first among the requests waiting, whichever handle sent it.
Requests == SelectSeq(pending, LAMBDA e : e[2] # Stop)
C18_Step ==
    \A t \in StoreTypes :
        (/\ wpc[t] = "recv" /\ wpc'[t] \in {"recv", "built"}
         /\ queue[t] # <<>> /\ queue'[t] = Tail(queue[t])
         /\ Head(queue[t]) # Stop)
        => Head(Requests)[1] = t
C18_EnqueueOrder == [][C18_Step]_vars

\* C19: a directory the compression thread deletes has a complete archive
\* beside it; when the archive could not be written, the directory is left.
C19_Step == \A d \in AllDirs : (d \in dirs /\ d \notin dirs') => (arch'[d].exists /\ arch'[d].complete)
C19_DeleteAfterArchive == [][C19_Step]_vars

\* C20: a store call never waits for the compression thread, and none fails
\* for what the thread did: every step of a call in progress can be taken
\* whatever the thread is doing, and no store call returns an error (the disk
\* of the model fails no operation of its own).
C20_StoreIndependent ==
    /\ \A p \in Handles :
        /\ pc[p] = "mkdir" => ENABLED CheckTimeMkdir(p)
        /\ pc[p] = "write" => ENABLED StoreWrite(p)
    /\ \A i \in 1..Len(calls) : calls[i].st # "Err"

\* C21: the teardown of a handle constructed with archival sends the stop
\* sentinel on the channel of its compression thread and then joins the thread,
\* whether the handle started the thread or got a sender only.
C21_Step ==
    \A p \in Handles :
        (pc[p] = "idle" /\ pc'[p] \in {"join", "lf_remove", "none"} /\ compress[p]) =>
            /\ pc'[p] = "join"
            /\ Running(htype[p]) => queue'[htype[p]] = Append(queue[htype[p]], Stop)
C21_TeardownStopsAndJoins == [][C21_Step]_vars

\* C22: once the compression thread has stopped at a sentinel it stays stopped:
\* no message enters its channel, no archive is written and no directory is
\* removed, and a construction with archival finds the slot set, takes a sender
\* and starts no thread.
C22_Step ==
    \A t \in StoreTypes :
        wpc[t] = "exited" =>
            /\ wpc'[t] = "exited"
            /\ queue'[t] = <<>>
            /\ arch' = arch
            /\ dirs \subseteq dirs'
            /\ \A p \in Handles :
                (htype[p] = t /\ pc[p] = "get_compressor" /\ pc'[p] = "idle" /\ compress[p]) =>
                    compress_tx'[p] /\ ~compress_hdl'[p] /\ slot'[t]
C22_StoppedForAll == [][C22_Step]_vars
\* The thread has stopped; a live handle has since rotated away from a day
\* directory that is still on disk without an archive, and the other handle
\* was constructed again and holds a sender only.
C22_Witness ==
    /\ wpc["UtcDaily"] = "exited"
    /\ \E p, q \in Handles :
        /\ p # q
        /\ pc[p] = "idle" /\ compress_tx[p]
        /\ \E i \in MyCalls(p) : /\ calls[i].sentdir \in Days
                                 /\ calls[i].sentdir \in dirs
                                 /\ ~arch[calls[i].sentdir].exists
        /\ pc[q] = "idle" /\ compress_tx[q] /\ ~compress_hdl[q]

\* C23: no step of a handle constructed without archival touches the channel
\* slot, starts a compression thread or appends to a channel; the handle holds
\* no sender, and its steps write no archive and remove no directory.
C23_Step ==
    \A p \in Handles :
        (pc[p] # "none" /\ ~compress[p] /\ pc'[p] # pc[p]) =>
            /\ slot' = slot /\ wpc' = wpc /\ queue' = queue /\ pending' = pending
            /\ ~compress_tx'[p] /\ ~compress_hdl'[p]
            /\ arch' = arch /\ dirs \subseteq dirs'
C23_DisabledTouchesNothing == [][C23_Step]_vars
\* The handle without archival has rotated from one day to another while a
\* compression thread runs in the process: nothing was sent and the directory
\* it left is on disk.
C23_Witness ==
    /\ pc[2] = "idle" /\ ~compress[2] /\ Running("UtcDaily")
    /\ \E i, j \in MyCalls(2) :
        /\ i < j /\ calls[i].st = "Ok" /\ calls[j].st = "Ok"
        /\ DateOf(calls[i].ts) # DateOf(calls[j].ts)
        /\ calls[j].sentdir = NoSend
        /\ DateOf(calls[i].ts) \in dirs /\ ~arch[DateOf(calls[i].ts)].exists

\* C24: a day directory a rotation has put into the channel of the compression
\* thread is in the end replaced by its archive: the directory is gone and the
\* complete archive holds every frame that was stored into the directory.
Waiting(d) == \E i \in 1..Len(queue["UtcDaily"]) : queue["UtcDaily"][i] = d
FramesStoredIn(d) == {i \in OkCalls : DirOf(calls[i].wrote) = d}
Archived(d) ==
    /\ d \notin dirs
    /\ arch[d].exists /\ arch[d].complete
    /\ FramesStoredIn(d) \subseteq UNION {Frames(e[2]) : e \in arch[d].files}
C24_EventuallyArchived == \A d \in Days : Waiting(d) ~> Archived(d)
\* A rotation retired a day directory that held a frame, and the directory has
\* been replaced by its archive.
C24_Witness ==
    \E d \in Days :
        /\ Archived(d) /\ FramesStoredIn(d) # {}
        /\ \E i \in 1..Len(calls) : calls[i].sentdir = d


\* C25: in a day-rotating run-based handle, the step of a store call that
\* compares the elapsed day floor(elapsed / 86400) of the call with the tracked
\* day, when the elapsed day exceeds it, sends the finished day's directory to
\* the compression thread of a handle with archival (and sends nothing on a
\* handle without), sets the frame counter to zero and creates no directory
\* yet; the directory of the new day is created by the following step, which
\* sends nothing; no step of a call whose day does not exceed the tracked day
\* changes the channel.
StoreSteps == {"fstore", "fmkdir", "fwrite", "estore", "emkdir", "ewrite"}
C25_Step == \A p \in Handles :
    /\ (pc[p] \in {"fstore", "estore"} /\ pc'[p] # pc[p]) =>
           IF Gt(tdelta[p], daycount[p])
           THEN /\ pc'[p] \in {"fmkdir", "emkdir"}
                /\ (compress[p] /\ Running(htype[p])) =>
                       queue'[htype[p]] = Append(queue[htype[p]], last_dir[p])
                /\ ~compress[p] => queue' = queue
                /\ htype[p] = "ExecCountDailySingleFrame" => framecount'[p] = Zero
                /\ dirs' = dirs
           ELSE /\ pc'[p] \notin {"fmkdir", "emkdir"}
                /\ queue' = queue
    /\ (pc[p] \in {"fmkdir", "emkdir"} /\ pc'[p] # pc[p]) =>
           /\ last_dir[p] = RunDayDir(runcount[p], daycount[p])
           /\ last_dir[p] \in dirs'
           /\ queue' = queue
    /\ (pc[p] \in {"fwrite", "ewrite"} /\ pc'[p] # pc[p]) => queue' = queue
C25_RotationEnqueues == [][C25_Step]_vars

\* C26: in an ExecCountDailySingleFrame handle the step of a store call that
\* finds the elapsed day not past the tracked day adds one to the frame
\* counter and keeps the day directory, so the call targets a file of a
\* greater frame id than the call before it in that day; the rest of the call
\* leaves the counter as incremented, also when it returns AlreadyExists.
C26_Step == \A p \in Handles :
    /\ (pc[p] = "fstore" /\ pc'[p] # pc[p] /\ ~Gt(tdelta[p], daycount[p])) =>
           /\ framecount'[p] = <<framecount[p][1], framecount[p][2] + 1>>
           /\ Gt(framecount'[p], framecount[p])
           /\ last_dir'[p] = last_dir[p] /\ daycount'[p] = daycount[p]
           /\ pc'[p] = "fwrite"
    /\ (pc[p] = "fwrite" /\ pc'[p] # pc[p]) =>
           /\ framecount'[p] = framecount[p]
           /\ res'[p] \in {"Ok", "OkPath", "AlreadyExists", "Err"}
           /\ res'[p] = "AlreadyExists" <=> <<last_dir[p], framecount[p]>> \in rfiles
           /\ res'[p] = "Ok" => <<last_dir[p], framecount[p]>> \in rfiles' \ rfiles
           /\ res'[p] = "OkPath" => rfiles' = rfiles
C26_CounterIncrements == [][C26_Step]_vars
\* A second call inside day 0 that returned AlreadyExists for frame 2, the
\* counter left at 2.
C26_Witness ==
    \E p \in Handles :
        /\ htype[p] = "ExecCountDailySingleFrame" /\ pc[p] = "idle"
        /\ res[p] = "AlreadyExists"
        /\ daycount[p] = Zero /\ framecount[p] = Num(2)
        /\ <<last_dir[p], Num(1)>> \in rfiles

\* C27: nothing serializes the allocation of a run id: the scan of a
\* constructor computes the id from the names it finds and creates nothing
\* under the root, whatever the other constructors are doing, and the creation
\* of the run directory succeeds whether or not the directory exists; so two
\* constructions that both scan before either creates its directory end with
\* the same run id and one run directory.
C27_Step == \A p \in Handles :
    /\ (pc[p] = "scan" /\ pc'[p] # pc[p]) =>
           /\ rundirs' = rundirs /\ dirs' = dirs
           /\ pc'[p] = "mkrun" =>
                  runcount'[p] = RunCount(htype[p], FindMaxIter(rundirs), FindMaxIter(runarch))
    /\ (pc[p] = "mkrun" /\ pc'[p] # pc[p]) =>
           /\ pc'[p] \in {"idle", "get_compressor"}
           /\ runcount'[p] = runcount[p]
           /\ rundirs' = rundirs \cup {runcount[p]}
C27_AllocationUnserialized ==
    /\ [][C27_Step]_vars
    /\ [](\A p \in Handles : pc[p] = "scan" => ENABLED RunScan(p))
    /\ [](\A p \in Handles : pc[p] = "mkrun" => ENABLED RunMkdir(p))
\* Two constructions that returned Ok with one run id, their scans both made
\* before the run directory existed.
C27_Witness ==
    \E p, q \in Handles :
        /\ p # q /\ pc[p] = "idle" /\ pc[q] = "idle"
        /\ res[p] = "Ok" /\ res[q] = "Ok"
        /\ htype[p] \in RunTypes /\ htype[q] \in RunTypes
        /\ runcount[p] = runcount[q] /\ runcount[p] \in rundirs
        /\ Len(allocs) = 2 /\ allocs[1].id = allocs[2].id /\ allocs[1].maxdir = allocs[2].maxdir

\* C28: the teardown of a handle that holds the lock removes the lock file of
\* its root and kind: after the remove_file step no file has the lock's name,
\* and when the teardown ends the file the handle had locked is linked under
\* no name; both steps of the teardown can always be taken and lead on to its
\* end, whether or not a lock file was there to remove.
C28_Step == \A p \in Procs :
    /\ (pc[p] = "lf_remove" /\ pc'[p] = "lf_unlock") =>
           /\ lockfile'[LockOf(p)] = 0
           /\ \A n \in LockNames \ {LockOf(p)} : lockfile'[n] = lockfile[n]
    /\ (pc[p] = "lf_unlock" /\ pc'[p] = "none") =>
           /\ \A n \in LockNames : lockfile'[n] # lockfd[p]
           /\ \A i \in LockInos : flockOwner'[i] # p
           /\ lockfile' = lockfile
C28_LockFileRemoved ==
    /\ [][C28_Step]_vars
    /\ [](\A p \in Procs : pc[p] = "lf_remove" => ENABLED LockFileDropRemove(p))
    /\ [](\A p \in Procs : pc[p] = "lf_unlock" =>
              /\ ENABLED LockFileDropUnlock(p)
              /\ lockfd[p] # 0
              /\ \A n \in LockNames : lockfile[n] # lockfd[p])
\* A handle in teardown that has removed its lock file and still holds the
\* lock of the unlinked file.
C28_Witness ==
    \E p \in Procs :
        /\ pc[p] = "lf_unlock" /\ HoldsLock(p)
        /\ lockfile[LockOf(p)] = 0

\* C29: the last step of a binary store call whose payload is beyond the
\* length field returns InvalidInput and leaves every file as it was: no file
\* is created and no byte is added to one, also when the call is the first
\* into its segment.
C29_Step == \A p \in Handles :
    (pc[p] = "write" /\ call[p].big /\ pc'[p] = "idle") =>
        /\ res'[p] = "InvalidInput"
        /\ ino' = ino /\ fpath' = fpath
C29_OversizeWritesNothing == [][C29_Step]_vars

\* C30: a store call of a UTC handle whose date is the tracked date sends
\* nothing to the compression thread in any of its steps; and of two
\* successive calls of an hourly handle in one day and in different hours the
\* second is given the file of its own hour by check_time_utchourly, another
\* file than the first's, and has sent nothing.
C30_Step == \A p \in Handles :
    /\ (pc[p] = "idle" /\ pc'[p] = "mkdir" /\ last_date[p] = DateOf(call'[p].ts)) =>
           /\ queue' = queue /\ pending' = pending
           /\ calls'[call'[p].frame].sentdir = NoSend
    /\ (pc[p] \in {"mkdir", "write"} /\ pc'[p] # pc[p]) =>
           /\ queue' = queue /\ pending' = pending
C30_HourRollover ==
    \A i, j \in 1..Len(calls) :
        (/\ NextCallOf(i, j) /\ htype[calls[i].h] = "UtcHourly"
         /\ calls[i].st = "Ok" /\ calls[j].st \notin {"begun"}
         /\ DateOf(calls[j].ts) = DateOf(calls[i].ts)
         /\ HourOf(calls[j].ts) # HourOf(calls[i].ts))
        => /\ calls[j].sentdir = NoSend
           /\ calls[j].file = HourlyFile(DateOf(calls[j].ts), HourOf(calls[j].ts), kind[calls[j].h])
           /\ calls[j].file # calls[i].file
C30_SameDateNoRequest == [][C30_Step]_vars /\ []C30_HourRollover
\* An hourly handle with a running compression thread whose store in the next
\* hour of the day created the file of that hour and sent nothing.
C30_Witness ==
    \E i, j \in OkCalls :
        /\ NextCallOf(i, j) /\ htype[calls[i].h] = "UtcHourly"
        /\ compress_tx[calls[i].h] /\ Running("UtcHourly")
        /\ DateOf(calls[j].ts) = DateOf(calls[i].ts)
        /\ HourOf(calls[j].ts) = HourOf(calls[i].ts) + 1
        /\ calls[j].how = "create" /\ calls[j].sentdir = NoSend
        /\ queue["UtcHourly"] = <<>>

\* C31: in an ExecCountHourly handle called with elapsed times that do not go
\* back, the file a store call writes is, in the directory of the day
\* floor(d / 86400 s) of the run, the file of the hour
\* floor((d mod 86400 s) / 3600 s) of the call.
C31_Step == \A p \in Handles :
    (pc[p] = "hwrite" /\ pc'[p] = "idle" /\ res'[p] = "Ok" /\ tdelta[p][1] <= LimbMax) =>
        /\ last_dir[p] = RunDayDir(runcount[p], tdelta[p])
        /\ hourcount'[p] = thour[p]
        /\ <<RunDayDir(runcount[p], tdelta[p]), Num(thour[p])>> \in rfiles'
C31_HourlyPath == [][C31_Step]_vars

\* C32: no step of a store call of a run-based handle lowers the tracked day;
\* the file a call writes or creates is in the directory of the tracked day of
\* the run, also when the elapsed time of the call is in an earlier day; a
\* step that sends a day directory for archival goes on to a later day, and no
\* call creates or writes a file in a directory that waits in a channel, is
\* being archived or has been archived.
Before(a, b) == a[1] < b[1] \/ (a[1] = b[1] /\ a[2] < b[2])
RotateSteps == {"fstore", "estore", "hstore"}
WriteSteps == {"fwrite", "ewrite", "hwrite"}
SentDirs == {pending[i][2] : i \in 1..Len(pending)} \cup {wjob[t] : t \in StoreTypes}
               \cup {d \in AllDirs : arch[d].exists}
C32_Step == \A p \in Handles :
    /\ (pc[p] \in RotateSteps \cup WriteSteps \cup {"fmkdir", "emkdir", "hmkdir"}) =>
           ~Before(daycount'[p], daycount[p])
    /\ (pc[p] \in RotateSteps /\ pc'[p] # pc[p] /\ queue' # queue) =>
           /\ Before(daycount[p], daycount'[p])
           /\ last_dir'[p] # last_dir[p]
           /\ pending'[Len(pending')][2] = last_dir[p]
    /\ (pc[p] \in WriteSteps /\ pc'[p] = "idle") =>
           /\ last_dir[p] = RunDayDir(runcount[p], daycount[p])
           /\ last_dir[p] \notin SentDirs
           /\ \A f \in rfiles' \ rfiles : f[1] = last_dir[p]
           /\ res'[p] = "Ok" => \E f \in rfiles' : f[1] = last_dir[p]
           /\ res'[p] \in {"Ok", "OkPath", "AlreadyExists"}
C32_DayNeverDecreases == [][C32_Step]_vars
\* A handle with archival in day 1 of its run, the directory of day 0 sent and
\* archived, that was called with an elapsed time of day 0 and wrote into the
\* directory of day 1.
C32_Witness ==
    \E p \in Handles :
        /\ pc[p] = "idle" /\ htype[p] \in DayTypes /\ res[p] = "Ok"
        /\ daycount[p] = Num(1) /\ tdelta[p] = Zero
        /\ arch[RunDayDir(runcount[p], Zero)].exists
        /\ \E f \in rfiles : f[1] = RunDayDir(runcount[p], Num(1))
        /\ \A f \in rfiles : f[1] # RunDayDir(runcount[p], Zero)

\* C33: every path a store call of a UTC handle sends to the compression
\* thread is a day directory that an earlier call made the current directory;
\* a call that no call of its handle precedes sends nothing.
C33_EnqueuedWasCurrent ==
    \A i \in 1..Len(calls) :
        /\ calls[i].sentdir # NoSend =>
               /\ calls[i].sentdir \in Days
               /\ \E j \in 1..(i - 1) : DirOf(calls[j].file) = calls[i].sentdir
        /\ (calls[i].h # 0 /\ \A j \in 1..(i - 1) : calls[j].h # calls[i].h) =>
               calls[i].sentdir = NoSend

\* C34: over the store calls of a handle with timestamps that do not go back,
\* calls that failed on the creation of the day directory and their retries
\* included, no day directory is sent to the compression thread by two calls.
C34_EnqueuedOnce ==
    \A i, j \in 1..Len(calls) :
        (i < j /\ calls[i].sentdir \in Days) => calls[j].sentdir # calls[i].sentdir

\* C35: no step takes a frame out of an archive that the compression thread
\* has built and finished: every frame in a complete archive is in it after
\* every step.
FramesOfArchive(a) == UNION {Frames(e[2]) : e \in a.files}
C35_Step == \A d \in AllDirs :
    (arch[d].exists /\ arch[d].complete) =>
        /\ arch'[d].exists
        /\ FramesOfArchive(arch[d]) \subseteq FramesOfArchive(arch'[d])
C35_ArchiveKept == [][C35_Step]_vars

\* C36: the compression thread exits only at a sentinel it takes from the head
\* of its channel, with no job in progress, so every request sent before the
\* sentinel has been handled by then; the teardown of the handle that holds the
\* join handle returns only when the thread has exited; and a request that
\* waits behind a sentinel keeps waiting until the thread exits, which discards
\* it without writing an archive or removing a directory.
FirstStop(q) == CHOOSE i \in 1..Len(q) : q[i] = Stop /\ \A j \in 1..(i - 1) : q[j] # Stop
HasStop(q) == \E i \in 1..Len(q) : q[i] = Stop
Behind(q) == SubSeq(q, FirstStop(q) + 1, Len(q))
IsPrefix(a, b) == Len(a) <= Len(b) /\ SubSeq(b, 1, Len(a)) = a
C36_Step ==
    \A t \in StoreTypes :
        /\ (wpc[t] # "exited" /\ wpc'[t] = "exited") =>
                /\ wpc[t] = "recv"
                /\ queue[t] # <<>> /\ Head(queue[t]) = Stop
        /\ \A p \in Handles :
                (htype[p] = t /\ pc[p] = "join" /\ pc'[p] # "join") => wpc[t] = "exited"
        /\ HasStop(queue[t]) =>
                IF wpc'[t] = "exited"
                THEN queue'[t] = <<>> /\ arch' = arch /\ dirs' = dirs
                ELSE HasStop(queue'[t]) /\ IsPrefix(Behind(queue[t]), Behind(queue'[t]))
C36_DrainedBeforeExit == [][C36_Step]_vars
\* The handle that started the thread waits in its teardown for the thread,
\* which has archived a directory and has a sentinel of the other handle
\* before it with a request behind the sentinel.
C36_Witness ==
    \E p \in Handles :
        /\ pc[p] = "join" /\ htype[p] = "ExecCountDaily"
        /\ wpc["ExecCountDaily"] = "recv"
        /\ HasStop(queue["ExecCountDaily"])
        /\ \E i \in 1..Len(Behind(queue["ExecCountDaily"])) : Behind(queue["ExecCountDaily"])[i] \in AllDirs
        /\ \E d \in AllDirs : arch[d].exists /\ arch[d].complete /\ arch[d].files # {}

\* C37: a teardown that waits in the join returns in the end, whichever of
\* the handles sharing the compression thread is dropped first, and once a
\* teardown has put a sentinel into the channel the thread exits in the end.
C37_TeardownTerminates ==
    /\ \A p \in Handles : (pc[p] = "join") ~> (pc[p] = "none")
    /\ HasStop(queue["ExecCountDaily"]) ~> (wpc["ExecCountDaily"] = "exited")
\* Both handles were constructed in two runs and both teardowns have returned;
\* the thread they shared has archived a directory and has exited.
C37_Witness ==
    /\ \A p \in Handles : pc[p] = "none"
    /\ wpc["ExecCountDaily"] = "exited"
    /\ Len(allocs) = 2
    /\ \E d \in AllDirs : arch[d].exists /\ arch[d].complete /\ arch[d].files # {}

\* C38: while a handle of the same root and kind is live and holds the lock,
\* every step of a second construction fails on the lock and leaves the
\* directory entries and the lock table as they are (the holder's lock file is
\* on disk under its name and the holder holds its lock); no step of a
\* construction before get_compressor, failing or not, touches the channel
\* slot, the compression thread or its channel.
C38_Step ==
    \A p \in Handles :
        TakesLockStep(p) =>
            /\ slot' = slot /\ wpc' = wpc /\ queue' = queue
            /\ \A q \in Handles :
                (SameLock(p, q) /\ Live(q) /\ HoldsLock(q)) =>
                    /\ FailsStep(p)
                    /\ lockfile' = lockfile /\ flockOwner' = flockOwner
                    /\ lockfile'[LockOf(q)] = lockfd'[q] /\ lockfd'[q] # 0
                    /\ flockOwner'[lockfd'[q]] = q
                    /\ ~compress_tx'[p] /\ ~compress_hdl'[p]
C38_FailedNewChangesNothing == [][C38_Step]_vars
\* A construction with archival has failed on the lock of a live handle of its
\* kind, which was constructed with archival and whose compression thread runs.
C38_Witness ==
    \E p, q \in Handles :
        /\ p # q /\ pc[p] = "none" /\ res[p] \in LockErrors /\ compress[p]
        /\ LockOf(p) = LockOf(q)
        /\ pc[q] = "idle" /\ HoldsLock(q) /\ compress_hdl[q]
        /\ Running("UtcDaily") /\ slot["UtcDaily"]
        /\ lockfile[LockOf(q)] = lockfd[q]

\* C39: a construction running while no other handle of its root and kind is
\* under construction, live or in teardown does not fail on the lock, also
\* when a process died earlier without teardown and left its lock file on disk.
C39_Step ==
    \A p \in Procs :
        (TakesLockStep(p) /\ \A q \in Procs : ~SameLock(p, q)) => ~FailsStep(p)
C39_StaleLockFree == [][C39_Step]_vars

\* C40: the UtcDaily handle that holds the join handle of the compression
\* thread, or waits in its join, holds the lock with its lock file on disk, and
\* a running thread has such a handle; the teardown of that handle sends the
\* sentinel and goes to the join without touching the lock, and leaves the join
\* only when the thread has exited; so no construction takes the lock of the
\* root and kind while the thread of that handle still runs.
Owns(p) == htype[p] = "UtcDaily" /\ (compress_hdl[p] \/ pc[p] = "join")
C40_Inv ==
    /\ \A p \in Handles : Owns(p) => (HoldsLock(p) /\ lockfile[LockOf(p)] = lockfd[p])
    /\ Running("UtcDaily") => \E p \in Handles : Owns(p)
C40_Step ==
    \A p \in Handles :
        /\ (pc[p] = "idle" /\ compress_hdl[p] /\ pc'[p] \in {"join", "lf_remove", "lf_unlock", "none"}) =>
                /\ pc'[p] = "join"
                /\ Running("UtcDaily") => queue'["UtcDaily"] = Append(queue["UtcDaily"], Stop)
                /\ lockfile' = lockfile /\ flockOwner' = flockOwner
        /\ (pc[p] = "join" /\ pc'[p] # "join") =>
                /\ wpc["UtcDaily"] = "exited" /\ queue["UtcDaily"] = <<>>
                /\ lockfile' = lockfile /\ flockOwner' = flockOwner
        /\ (pc[p] = "lf_lock" /\ pc'[p] = "get_compressor") =>
                /\ ~Running("UtcDaily")
                /\ \A q \in Handles \ {p} : ~Owns(q)
C40_ReleasedAfterJoin == [](C40_Inv) /\ [][C40_Step]_vars
\* The handle that started the thread has sent the sentinel, joined the thread
\* and is removing its lock file; the thread archived a directory of the handle
\* before it exited, and the other thread is about to test for the lock file.
C40_Witness ==
    \E p, q \in Handles :
        /\ p # q /\ pc[p] = "lf_remove" /\ HoldsLock(p)
        /\ wpc["UtcDaily"] = "exited"
        /\ \E d \in Days : arch[d].exists /\ arch[d].complete /\ arch[d].files # {}
        /\ pc[q] = "get_lock"

====
